---- MODULE Spec2Model ----
(***************************************************************************)
(* Room / game / round state machine of the modaltron server.              *)
(*                                                                         *)
(* One room, a fixed pool of sessions (SocketClient objects), the room     *)
(* controller, and the games the room creates together with their game     *)
(* controllers.  Every inbound message, timer callback and loop frame is   *)
(* one action; an action runs its whole handler, nested emits included.    *)
(*                                                                         *)
(* Collections of players and avatars are kept by the code in insertion    *)
(* order, and ids are handed out increasingly, so those collections are    *)
(* always in ascending id order: they are modelled as sets that are        *)
(* visited in ascending order.  RoomController.clients is visited in       *)
(* attach order and is a sequence.                                         *)
(*                                                                         *)
(* The physics of a frame (positions, walls, trail bodies) is abstracted   *)
(* to its outcome: the set of alive avatars that hit something in the      *)
(* frame, and the number of bonuses picked up, are inputs of Tick.         *)
(***************************************************************************)
EXTENDS Integers, Sequences, FiniteSets, TLC

\* ---- bounds of the model ------------------------------------------------
NumClients  == 2      \* sessions in the pool
MaxPlayerId == 2      \* largest player id the room hands out
MaxGames    == 2      \* games the room creates in one behaviour
MaxRounds   == 2      \* rounds begun per game
MaxBonuses  == 1      \* bonuses on the map (stands for bonus_cap)
MaxAttach   == 2      \* times one session attaches to the room
MaxMessages == 8      \* inbound frames the server handles in one behaviour
MaxRooms    == 2      \* Room objects the repository registers in one behaviour
MaxChecks   == 3      \* close checks pending at one time
MaxClock    == 3      \* half close delays the clock runs through
MaxNameLen  == 2      \* characters of a requested room name
MaxIssue    == 6      \* outbound events one session issues in one behaviour
MaxReady    == 4      \* callbacks waiting in the event loop's ready queue
MaxTick     == 2      \* game ticks that issue events to the session
MaxFrames   == 2      \* inbound frames of one connection
MaxMsgs     == 2      \* messages of one inbound frame
NumAvatars  == 2      \* avatars of the round the world is followed through
Radius      == 6      \* an avatar's radius, in map units
Step        == 10     \* map units an avatar moves in one frame
MaxFieldTicks == 4    \* frames of the round
MaxToggles  == 1      \* times the print managers toggle printing
MaxSwitches == 1      \* times a bonus switches borderless or invincible
MaxPops     == 2      \* bonuses the manager pops in one behaviour
MaxBonusRounds == 2   \* rounds the bonuses are followed through
Quantum     == 1000   \* milliseconds by which the clock goes on
MaxHeld     == 2      \* bonuses the stacks hold together when add and remove are applied alone
MaxDigit    == 2      \* largest digit of a generated password (stands for 9)
MaxCloses   == 2      \* times the room is closed in one behaviour
MaxBodies   == 3      \* bodies made for the world with islands
MaxClears   == 2      \* times the world with islands is cleared
MaxListen   == 2      \* times one session attaches to the controllers of the rooms
MaxMade     == 3      \* Player objects made in the rooms

\* BaseGame.warmup_time, BaseGame.warmdown_time (ms)
warmup_time   == 3000
warmdown_time == 5000

\* RoomController.time_to_close (ms), BaseRoom.max_length
time_to_close == 10000
max_length    == 25

Clients == 1..NumClients
Pids    == 1..MaxPlayerId
Gids    == 1..MaxGames

\* maxScore values carried by room:config:max-score (0: none / not a number)
ScoreInputs == {-1, 0, 1}

VARIABLES
    clients,   \* c -> SocketClient: closed, active, players, listener counts
    room,      \* Room + RoomConfig: players, ready flags, id counter, game
    ctl,       \* RoomController: clients, room_master, launching
    games,     \* g -> Game + BonusManager + GameController
    avatars,   \* p -> the Avatar object of player p (player.avatar)
    received,  \* number of inbound frames handled so far
    repository, \* RoomRepository, its rooms' controllers, the clock, the timers
    wire,      \* one SocketClient, its tasks and the event loop's ready queue
    inbox,     \* Server.handle_websocket's receive loop of one connection
    field,     \* the world of one round: avatars, trail bodies, walls
    bonusplay, \* bonuses of one game: manager, stacks, expiry timers
    config,    \* a room's configuration and the sessions joined to it
    world,     \* a World with its islands and the bodies made for it
    lobby      \* two rooms with their controllers, rosters and the sessions' listeners

roomvars == <<clients, room, ctl, games, avatars, received>>
vars == <<clients, room, ctl, games, avatars, received, repository, wire, inbox, field, bonusplay, config, world, lobby>>

Max(a, b) == IF a >= b THEN a ELSE b
MinOf(s)  == CHOOSE x \in s : \A y \in s : x <= y

RECURSIVE Sorted(_)
Sorted(s) == IF s = {} THEN <<>> ELSE <<MinOf(s)>> \o Sorted(s \ {MinOf(s)})

Range(q) == {q[i] : i \in 1..Len(q)}
Without(q, x) == SelectSeq(q, LAMBDA y : y # x)

\* ---- objects after construction ------------------------------------------
\* RoomRepository.__init__, with the controllers' clients of its rooms, the
\* event loop's clock and its pending RoomController._check_for_close timers.
\* History: room:open and room:close emitted, the last request answered, and
\* per room how long it had been empty when it was closed or removed.
RoomRepository ==
    [rooms |-> <<>>, name |-> [r \in 1..MaxRooms |-> <<>>], made |-> 0,
     attached |-> [r \in 1..MaxRooms |-> {}],
     checks |-> <<>>, now |-> 0,
     empty_since |-> [r \in 1..MaxRooms |-> 0],
     waited |-> [r \in 1..MaxRooms |-> -1],
     opens |-> 0, closes |-> 0, last |-> <<"none", FALSE>>]

\* BaseSocketClient.__init__ and SocketClient.__init__ followed by
\* `await client.start()` of
\* Server.handle_websocket: connected, empty outbox, the flush loop task created
\* and waiting for its first step, the handler about to wait for a frame.
\* loop and ping are the states of the flush and ping tasks, ping_task tells
\* whether the attribute of that name is set, ready is the loop's FIFO of
\* callbacks, inflight counts send tasks inside socket.send_text.
\* History: sent (frames in the order they were handed to socket.send_text),
\* log (the events put in the outbox), dropped (the events a flush discarded).
BaseSocketClient ==
    [connected |-> TRUE, events |-> <<>>, handler |-> "recv",
     loop |-> "new", loop_cancel |-> FALSE,
     ping |-> "none", ping_cancel |-> FALSE, ping_task |-> FALSE, waiters |-> <<>>,
     ready |-> <<[t |-> "loop", evs |-> <<>>]>>, inflight |-> 0,
     in_room |-> FALSE, in_game |-> FALSE, avatar |-> FALSE,
     issued |-> 0, tick |-> 0,
     sent |-> <<>>, log |-> <<>>, dropped |-> <<>>, closed_at |-> -1]

\* the connection after `await client.start()`: open, nothing received;
\* log holds what became of each message the loop went through, replies counts
\* the reply callbacks called
Inbox == [open |-> TRUE, frames |-> 0, log |-> <<>>, replies |-> 0]

\* BaseGame.per_player_size, World.island_grid_size,
\* BaseAvatar.DEFAULT_TRAIL_LATENCY
per_player_size       == 80
island_grid_size      == 40
DEFAULT_TRAIL_LATENCY == 3

\* round(math.sqrt(v)) for a v whose root lies in lo..hi
sqrt_round(v, lo, hi) ==
    CHOOSE s \in lo..hi : (2 * s - 1) * (2 * s - 1) <= 4 * v /\ 4 * v < (2 * s + 1) * (2 * s + 1)

\* BaseGame.get_size
get_size(players) ==
    LET square == per_player_size * per_player_size
    IN sqrt_round(square + ((players - 1) * square) \div 5,
                  per_player_size, per_player_size * players)

\* Python's round(a / b) for b > 0: halves go to the even neighbour
round_div(a, b) ==
    LET q == a \div b
        r == a % b
    IN IF 2 * r < b THEN q
       ELSE IF 2 * r > b THEN q + 1
       ELSE IF q % 2 = 0 THEN q ELSE q + 1

\* Avatar.__init__ followed by BaseAvatar.clear: an avatar of the round's game;
\* last is the trail's last point (<<>> for None); ev, pre, killer, seen and shield
\* record what Game.update did to the avatar in its latest frame: the outcome, the
\* position Avatar.update gave it, the avatar and number of the body that killed
\* it, the world's body count and the avatar's invincibility at the collision test
RoundAvatar ==
    [x |-> Radius, y |-> Radius, angle |-> 0, alive |-> TRUE, printing |-> FALSE,
     invincible |-> FALSE, radius |-> Radius, body_count |-> 0, num |-> 0,
     last |-> <<>>, pm_active |-> FALSE,
     ev |-> "", pre |-> <<Radius, Radius>>, killer |-> <<>>, seen |-> 0,
     shield |-> FALSE]

\* Game.__init__ with its World: a game of NumAvatars avatars between rounds;
\* bodies is the world's bodies in the order World.add_body numbered them
Field ==
    [size |-> get_size(NumAvatars), started |-> FALSE, in_round |-> FALSE,
     active |-> FALSE, looping |-> FALSE, borderless |-> FALSE,
     bodies |-> <<>>, av |-> [a \in 1..NumAvatars |-> RoundAvatar],
     ticks |-> 0, toggles |-> 0, switches |-> 0]

\* BaseAvatar.DEFAULT_VELOCITY, BaseBonusManager.bonus_cap and bonus_poping_time
DEFAULT_VELOCITY  == 16
bonus_cap         == 20
bonus_poping_time == 3000

\* Player.color of the avatar's player
PlayerColor(a) == <<"player", a>>

\* Avatar.__init__ and BaseAvatar.clear for the bonus stacks: radius_log2 is the
\* radius as the power of two by which it differs from DEFAULT_RADIUS,
\* angular_velocity_base the velocity update_base_angular_velocity computed it
\* from; directionInLoop and angularVelocityBase are the attributes of those names
\* that BaseBonusStack.apply sets on the avatar
StackAvatar(a) ==
    [alive |-> TRUE, velocity |-> DEFAULT_VELOCITY, radius_log2 |-> 0,
     inverse |-> FALSE, invincible |-> FALSE, color |-> PlayerColor(a),
     direction_in_loop |-> TRUE, angular_velocity_base |-> DEFAULT_VELOCITY,
     directionInLoop |-> "unset", angularVelocityBase |-> "unset", stack |-> <<>>]

\* a game whose first round has just started its loop (BaseGame.start): the bonus
\* manager with its id counter and the bonuses on the map, the avatars' and the
\* game's bonus stacks, the pending call_later timers of applied bonuses with the
\* milliseconds left to each; stop_in / start_in are the warm-down and warm-up
\* timers (<<>> when there is none, else the milliseconds left in a tuple),
\* pop_for the milliseconds the popping timer has been pending; clears counts
\* the bonus manager's clear() calls, offs and events record the off() callback
\* run and the 'change' events emitted by the latest handler
BonusPlay ==
    [started |-> TRUE, in_round |-> TRUE, looping |-> TRUE,
     stop_in |-> <<>>, start_in |-> <<>>, pop_for |-> <<0>>,
     counter |-> 0, map |-> <<>>, made |-> 0,
     av |-> [a \in 1..NumAvatars |-> StackAvatar(a)],
     gstack |-> <<>>, borderless |-> FALSE,
     timers |-> <<>>, clears |-> 0, offs |-> {}, events |-> {},
     pops |-> 0, rounds |-> 1]

\* World.__init__ of a game's world: islands per side from the size, isl the
\* Island.bodies of every island (the bodies in order, named by the number they
\* were made with), body the Body objects made so far with their id and
\* Body.islands, removed the bodies World.remove_body was called for
World ==
    [size |-> get_size(NumAvatars), active |-> FALSE, body_count |-> 0,
     isl |-> [i \in (0..(round_div(get_size(NumAvatars), island_grid_size) - 1))
                       \X (0..(round_div(get_size(NumAvatars), island_grid_size) - 1)) |-> <<>>],
     body |-> <<>>, removed |-> {}, clears |-> 0]

\* RoomsController with MaxRooms rooms just created, each with its
\* RoomController, and the connected sessions: per room the controller's
\* clients, room.players as the Player objects in order, the id counter of that
\* collection and whether room.game is set; per session client.players and the
\* rooms whose controller registered its listeners on the session, one entry per
\* attach; player holds the Player objects made so far; last is the latest
\* request
Lobby ==
    [attached |-> [r \in 1..MaxRooms |-> <<>>],
     roster |-> [r \in 1..MaxRooms |-> <<>>],
     counter |-> [r \in 1..MaxRooms |-> 0],
     game |-> [r \in 1..MaxRooms |-> FALSE],
     held |-> [c \in 1..NumClients |-> <<>>],
     listeners |-> [c \in 1..NumClients |-> <<>>],
     player |-> <<>>, last |-> <<>>]

\* BaseRoomConfig.password_length
password_length == 4

\* BaseRoomConfig.__init__ of a room that was just created, with the sessions
\* attached to its controller; password is <<>> for None; generated counts the
\* calls of generate_password, last is the latest room:join with its reply
RoomConfig ==
    [open |-> TRUE, password |-> <<>>, clients |-> {}, generated |-> 0, last |-> <<>>]

NoAvatar ==
    [exists |-> FALSE, client |-> 0, alive |-> FALSE, present |-> FALSE,
     ready |-> FALSE, score |-> 0, round_score |-> 0]

\* BaseAvatar.__init__
Avatar(c) ==
    [exists |-> TRUE, client |-> c, alive |-> TRUE, present |-> TRUE,
     ready |-> FALSE, score |-> 0, round_score |-> 0]

NoGame ==
    [created |-> FALSE, avatars |-> {}, started |-> FALSE, in_round |-> FALSE,
     frame_task |-> FALSE, deaths |-> {}, round_winner |-> 0,
     game_winner |-> 0, max_score |-> 0,
     start_timer |-> FALSE, stop_timer |-> FALSE,
     poping_timeout |-> FALSE, bonuses |-> 0,
     clients |-> {}, waiting |-> "none",
     \* history: end emitted, waiting timer fired, round:new and round:end
    \* counts, the avatars alive when the last round:end was emitted, and
    \* whether RoomConfig.max_score was set when the game was created, and
    \* whether the room was ready (BaseRoom.is_ready) when it was created
     ended |-> FALSE, timed_out |-> FALSE, rounds_new |-> 0, rounds_end |-> 0,
     alive_at_end |-> {}, configured |-> FALSE, room_ready |-> FALSE]

\* SocketClient.__init__ ; listener counts of the three controllers
SocketClient ==
    [closed |-> FALSE, active |-> TRUE, players |-> {},
     room_listeners |-> 0, master_listeners |-> 0,
     ready_listeners |-> [g \in Gids |-> 0]]

Init ==
    /\ clients = [c \in Clients |-> SocketClient]
    /\ room = [players |-> {}, client |-> [p \in Pids |-> 0],
               ready |-> [p \in Pids |-> FALSE], id_counter |-> 0,
               max_score |-> 0, open |-> TRUE, password |-> 0,
               game |-> 0, game_count |-> 0]
    /\ ctl = [clients |-> <<>>, room_master |-> 0, launching |-> FALSE]
    /\ games = [g \in Gids |-> NoGame]
    /\ avatars = [p \in Pids |-> NoAvatar]
    /\ received = 0
    /\ repository = RoomRepository
    /\ wire = BaseSocketClient
    /\ lobby = Lobby
    /\ world = World
    /\ config = RoomConfig
    /\ bonusplay = BonusPlay
    /\ field = Field
    /\ inbox = Inbox

\* The whole state as one value, threaded through the steps of a handler.
\* ok turns FALSE when a step would leave the bounds of the model.
\* death_in_frame is Game.death_in_frame: written and read by one frame only.
\* replies are the results the handlers of one inbound request pass to its
\* callback (BaseSocketClient.add_callback), as their success flags.
\* events are the events GameController._on_ready puts into the queue of the
\* session that sent the request (client.add_events, socket_group.add_event).
Cur == [clients |-> clients, room |-> room, ctl |-> ctl, games |-> games,
        avatars |-> avatars, death_in_frame |-> FALSE, replies |-> <<>>,
        events |-> <<>>, ok |-> TRUE]

\* callback({'success': success, ...}) of a request handler
callback(S, success) == [S EXCEPT !.replies = Append(@, success)]

Commit(S) ==
    /\ S.ok
    /\ clients' = S.clients
    /\ room' = S.room
    /\ ctl' = S.ctl
    /\ games' = S.games
    /\ avatars' = S.avatars
    /\ UNCHANGED <<repository, wire, inbox, field, bonusplay, config, world, lobby>>

\* the end of a handler run by BaseSocketClient.on_message / on_close
Handled(S) == received < MaxMessages /\ received' = received + 1 /\ Commit(S)

\* the end of a callback run by the event loop (call_later, the frame task)
Fired(S) == UNCHANGED received /\ Commit(S)

\* ---- avatar ----------------------------------------------------------------
\* BaseAvatar.clear / Avatar.clear
clear(a) == [a EXCEPT !.alive = TRUE, !.round_score = 0]

\* BaseAvatar.destroy
destroy(a) == [clear(a) EXCEPT !.present = FALSE, !.alive = FALSE]

\* BaseAvatar.die / Avatar.die
die(a) == [a EXCEPT !.alive = FALSE]

\* BaseAvatar.add_score
add_score(a, score) == [a EXCEPT !.round_score = @ + score]

\* variant of resolve_score that overwrites the score with the round score
resolve_score_overwrite(a) == [a EXCEPT !.score = a.round_score, !.round_score = 0]

\* BaseAvatar.resolve_score
resolve_score(a) == [a EXCEPT !.score = @ + a.round_score, !.round_score = 0]

\* BasePlayer.get_avatar, for a player of session c
get_avatar(S, p, c) ==
    IF S.avatars[p].exists THEN S ELSE [S EXCEPT !.avatars[p] = Avatar(c)]

\* ---- game queries -----------------------------------------------------------
get_alive_avatars(S, g)   == {p \in S.games[g].avatars : S.avatars[p].alive}
get_present_avatars(S, g) == {p \in S.games[g].avatars : S.avatars[p].present}
get_loading_avatars(S, g) ==
    {p \in S.games[g].avatars : S.avatars[p].present /\ ~S.avatars[p].ready}
is_ready(S, g) == get_loading_avatars(S, g) = {}

\* variant of is_won that ignores a tie of the two best scores
is_won_no_tie(S, g) ==
    LET present == Cardinality(get_present_avatars(S, g))
        players == {p \in S.games[g].avatars :
                      S.avatars[p].present /\ S.avatars[p].score >= S.games[g].max_score}
        top     == {p \in players : \A q \in players : S.avatars[q].score <= S.avatars[p].score}
    IN  IF present <= 0 THEN -1
        ELSE IF Cardinality(S.games[g].avatars) > 1 /\ present <= 1 THEN -1
        ELSE IF players = {} THEN 0
        ELSE MinOf(top)

\* Game.is_won: 0 for None, -1 for True, otherwise the winning avatar
is_won(S, g) ==
    LET present == Cardinality(get_present_avatars(S, g))
        players == {p \in S.games[g].avatars :
                      S.avatars[p].present /\ S.avatars[p].score >= S.games[g].max_score}
        top     == {p \in players : \A q \in players : S.avatars[q].score <= S.avatars[p].score}
    IN  IF present <= 0 THEN -1
        ELSE IF Cardinality(S.games[g].avatars) > 1 /\ present <= 1 THEN -1
        ELSE IF players = {} THEN 0
        ELSE IF Cardinality(players) = 1 THEN MinOf(players)
        ELSE IF Cardinality(top) > 1 THEN 0
        ELSE MinOf(top)

\* ---- round and score ---------------------------------------------------------
\* variant of kill that credits the number of deaths at the time of the kill
kill_live_count(S, g, p, score) ==
    [S EXCEPT !.avatars[p] = add_score(die(@), Cardinality(S.games[g].deaths)),
              !.games[g].deaths = @ \cup {p},
              !.death_in_frame = TRUE]

\* Game.kill
kill(S, g, p, score) ==
    [S EXCEPT !.avatars[p] = add_score(die(@), score),
              !.games[g].deaths = @ \cup {p},
              !.death_in_frame = TRUE]

\* variant of resolve_scores that awards playerCount - 1 without the minimum of 1
resolve_scores_no_min(S, g) ==
    LET avs    == S.games[g].avatars
        alive  == get_alive_avatars(S, g)
        winner == IF Cardinality(avs) = 1 THEN MinOf(avs)
                  ELSE IF alive = {} THEN 0 ELSE MinOf(alive)
        S1     == IF winner # 0
                  THEN [S EXCEPT !.avatars[winner] = add_score(@, Cardinality(avs) - 1),
                                 !.games[g].round_winner = winner]
                  ELSE S
    IN  [S1 EXCEPT !.avatars = [p \in Pids |->
                       IF p \in avs THEN resolve_score(S1.avatars[p])
                                    ELSE S1.avatars[p]]]

\* Game.resolve_scores
resolve_scores(S, g) ==
    LET avs    == S.games[g].avatars
        alive  == get_alive_avatars(S, g)
        winner == IF Cardinality(avs) = 1 THEN MinOf(avs)
                  ELSE IF alive = {} THEN 0 ELSE MinOf(alive)
        S1     == IF winner # 0
                  THEN [S EXCEPT !.avatars[winner] =
                                     add_score(@, Max(Cardinality(avs) - 1, 1)),
                                 !.games[g].round_winner = winner]
                  ELSE S
    IN  [S1 EXCEPT !.avatars = [p \in Pids |->
                       IF p \in avs THEN resolve_score(S1.avatars[p])
                                    ELSE S1.avatars[p]]]

\* Game.on_round_end: resolve the scores, emit round:end
on_round_end(S, g) ==
    LET S1 == resolve_scores(S, g)
    IN  [S1 EXCEPT !.games[g].rounds_end = @ + 1,
                   !.games[g].alive_at_end = get_alive_avatars(S, g)]

\* BaseGame.end_round
end_round(S, g) ==
    IF S.games[g].in_round
    THEN LET S1 == on_round_end([S EXCEPT !.games[g].in_round = FALSE], g)
         IN  [S1 EXCEPT !.games[g].stop_timer = TRUE]
    ELSE S

\* variant of check_round_end that lets the round go on while one avatar is alive
check_round_end_last_alive(S, g) ==
    IF ~S.games[g].in_round THEN S
    ELSE IF Cardinality(get_alive_avatars(S, g)) > 0 THEN S
    ELSE end_round(S, g)

\* Game.check_round_end
check_round_end(S, g) ==
    IF ~S.games[g].in_round THEN S
    ELSE IF Cardinality(get_alive_avatars(S, g)) > 1 THEN S
    ELSE end_round(S, g)

\* BaseGame.remove_avatar + Game.remove_avatar
remove_avatar(S, g, p) ==
    LET S1 == IF p \in S.games[g].avatars
              THEN [S EXCEPT !.avatars[p] = destroy(die(@))]
              ELSE S
    IN  check_round_end(S1, g)

\* the loop of GameController.detach over the session's players
RECURSIVE remove_avatars(_, _, _)
remove_avatars(S, g, ps) ==
    IF ps = <<>> THEN S
    ELSE LET p  == Head(ps)
             S1 == IF S.avatars[p].exists THEN remove_avatar(S, g, p) ELSE S
         IN  remove_avatars(S1, g, Tail(ps))

\* GameController.detach
GameController_detach(S, g, c) ==
    IF c \in S.games[g].clients
    THEN remove_avatars([S EXCEPT !.games[g].clients = @ \ {c}], g,
                        Sorted(S.clients[c].players))
    ELSE S

\* the avatar loop of Game.update: K is the set of avatars that hit a wall
\* or a body in this frame
RECURSIVE update_avatars(_, _, _, _, _)
update_avatars(S, g, ps, K, score) ==
    IF ps = <<>> THEN S
    ELSE LET p  == Head(ps)
             S1 == IF S.avatars[p].alive /\ p \in K THEN kill(S, g, p, score) ELSE S
         IN  update_avatars(S1, g, Tail(ps), K, score)

\* Game.update; caught is the number of bonuses the survivors pick up
update(S, g, K, caught) ==
    LET score == Cardinality(S.games[g].deaths)
        S0 == [S EXCEPT !.death_in_frame = FALSE]
        S1 == update_avatars(S0, g, Sorted(S.games[g].avatars), K, score)
        S2 == [S1 EXCEPT !.games[g].bonuses = @ - caught]
    IN  IF S2.death_in_frame THEN check_round_end(S2, g) ELSE S2

\* BaseGame.on_round_new + Game.on_round_new
on_round_new(S, g) ==
    LET avs == S.games[g].avatars
    IN  [S EXCEPT !.games[g].bonuses = 0,
                  !.games[g].round_winner = 0,
                  !.games[g].deaths = {p \in avs : ~S.avatars[p].present},
                  !.games[g].rounds_new = @ + 1,
                  !.avatars = [p \in Pids |->
                      IF p \in avs /\ S.avatars[p].present
                      THEN clear(S.avatars[p]) ELSE S.avatars[p]]]

\* BaseGame.new_round
new_round(S, g) ==
    LET S1 == [S EXCEPT !.games[g].started = TRUE]
    IN  IF ~S1.games[g].in_round
        THEN LET S2 == on_round_new([S1 EXCEPT !.games[g].in_round = TRUE], g)
             IN  [S2 EXCEPT !.games[g].start_timer = TRUE,
                            !.ok = S.ok /\ S.games[g].rounds_new < MaxRounds]
        ELSE S1

\* BaseRoom.close_game, with BasePlayer.reset and the id counter that
\* Collection.filter rebuilds
close_game(S) ==
    IF S.room.game # 0
    THEN [S EXCEPT !.room.game = 0,
                   !.room.id_counter = IF S.room.players = {} THEN 0
                                       ELSE CHOOSE x \in S.room.players :
                                                \A y \in S.room.players : y <= x,
                   !.room.ready = [p \in Pids |-> FALSE],
                   !.avatars = [p \in Pids |->
                       IF p \in S.room.players THEN NoAvatar ELSE S.avatars[p]]]
    ELSE S

\* GameController._unload_game: detach every client
RECURSIVE unload_game(_, _, _)
unload_game(S, g, cs) ==
    IF cs = <<>> THEN S
    ELSE unload_game(GameController_detach(S, g, Head(cs)), g, Tail(cs))

RECURSIVE stop(_, _)

\* BaseGame.end + Game.end; the listeners of end are BaseRoom.close_game,
\* then GameController._on_end
end(S, g) ==
    IF S.games[g].started
    THEN LET S1 == stop([S EXCEPT !.games[g].started = FALSE], g)
             S2 == close_game([S1 EXCEPT !.games[g].ended = TRUE])
             S3 == unload_game(S2, g, Sorted(S2.games[g].clients))
         IN  [S3 EXCEPT !.games[g].avatars = {},
                        !.avatars = [p \in Pids |->
                            IF p \in S3.games[g].avatars THEN NoAvatar
                            ELSE S3.avatars[p]]]
    ELSE S

\* BaseGame.on_stop + Game.on_stop
on_stop(S, g) ==
    LET S1  == [S EXCEPT !.games[g].poping_timeout = FALSE,
                         !.games[g].bonuses = 0]
        won == is_won(S1, g)
    IN  IF won # 0
        THEN end([S1 EXCEPT !.games[g].game_winner =
                                IF won > 0 THEN won ELSE @], g)
        ELSE new_round(S1, g)

\* BaseGame.stop
stop(S, g) ==
    IF S.games[g].frame_task
    THEN on_stop([S EXCEPT !.games[g].frame_task = FALSE], g)
    ELSE S

\* BaseGame.start with Game.on_start and BonusManager.start
start(S, g) ==
    IF ~S.games[g].frame_task
    THEN [S EXCEPT !.games[g].bonuses = 0,
                   !.games[g].poping_timeout = TRUE,
                   !.games[g].frame_task = TRUE]
    ELSE S

\* BonusManager.pop_bonus
pop_bonus(S, g) ==
    [S EXCEPT !.games[g].poping_timeout = TRUE,
              !.games[g].bonuses = IF @ < MaxBonuses THEN @ + 1 ELSE @]

\* ---- game controller -----------------------------------------------------------
\* the loop of GameController._attach_events over the session's players
RECURSIVE get_avatars(_, _, _)
get_avatars(S, ps, c) ==
    IF ps = <<>> THEN S ELSE get_avatars(get_avatar(S, Head(ps), c), Tail(ps), c)

\* GameController.attach + _attach_events (one more ready listener on c)
GameController_attach(S, g, c) ==
    IF c \notin S.games[g].clients
    THEN get_avatars([S EXCEPT !.games[g].clients = @ \cup {c},
                               !.clients[c].ready_listeners[g] = @ + 1],
                     Sorted(S.clients[c].players), c)
    ELSE S

\* GameController._check_ready
check_ready(S, g) ==
    IF is_ready(S, g)
    THEN new_round([S EXCEPT !.games[g].waiting = "none"], g)
    ELSE S

\* the properties GameController._attach_spectator sends for each avatar
properties == <<"angle", "radius", "color", "printing", "score">>

\* the events of one avatar in GameController._attach_spectator
avatar_events(S, p) ==
    << <<"position", p>> >>
    \o [i \in 1..Len(properties) |-> <<"property", p, properties[i]>>]
    \o (IF ~S.avatars[p].alive THEN << <<"die", p>> >> ELSE <<>>)

\* the loop of GameController._attach_spectator over game.avatars
RECURSIVE avatars_events(_, _)
avatars_events(S, ps) ==
    IF ps = <<>> THEN <<>>
    ELSE avatar_events(S, Head(ps)) \o avatars_events(S, Tail(ps))

\* GameController._attach_spectator: what session c finds in its queue; round:end
\* goes to the socket group, of which c is a member while it is attached
attach_spectator(S, g, c) ==
    LET events == << <<"spectate">> >> \o avatars_events(S, Sorted(S.games[g].avatars))
                  \o (IF S.games[g].in_round
                      THEN [i \in 1..S.games[g].bonuses |-> <<"bonus:pop", i>>]
                      ELSE <<>>)
                  \o << <<"game:spectators">> >>
        group  == IF ~S.games[g].in_round /\ c \in S.games[g].clients
                  THEN << <<"round:end">> >> ELSE <<>>
    IN  [S EXCEPT !.events = @ \o group \o events]

\* what GameController._attach_spectator, run for another session, puts in the
\* queue of session d: SocketGroup.add_event goes over the controller's clients
spectator_group_events(S, g, d) ==
    IF ~S.games[g].in_round /\ d \in S.games[g].clients
    THEN << <<"round:end">> >> ELSE <<>>

\* GameController._on_ready
GameController_on_ready(S, g, c) ==
    IF S.games[g].started THEN attach_spectator(S, g, c)
    ELSE LET S1 == get_avatars(S, Sorted(S.clients[c].players), c)
             S2 == [S1 EXCEPT !.avatars = [p \in Pids |->
                        IF p \in S.clients[c].players
                        THEN [S1.avatars[p] EXCEPT !.ready = TRUE]
                        ELSE S1.avatars[p]],
                              !.events = IF c \in S.games[g].clients
                                         THEN @ \o [i \in 1..Cardinality(S.clients[c].players) |->
                                                      <<"ready", Sorted(S.clients[c].players)[i]>>]
                                         ELSE @]
         IN  check_ready(S2, g)

\* the loop of GameController._stop_waiting over the loading avatars
RECURSIVE detach_loading(_, _, _)
detach_loading(S, g, ps) ==
    IF ps = <<>> THEN S
    ELSE detach_loading(GameController_detach(S, g, S.avatars[Head(ps)].client),
                        g, Tail(ps))

\* GameController._stop_waiting, run by the waiting timer
stop_waiting(S, g) ==
    LET S0 == [S EXCEPT !.games[g].waiting = "fired",
                        !.games[g].timed_out = TRUE]
    IN  IF ~is_ready(S0, g)
        THEN check_ready(detach_loading([S0 EXCEPT !.games[g].waiting = "none"],
                                        g, Sorted(get_loading_avatars(S0, g))), g)
        ELSE S0

\* ---- room ------------------------------------------------------------------------
\* BaseRoom.is_ready
room_is_ready(S) ==
    /\ S.room.game = 0
    /\ Cardinality(S.room.players) >= 1
    /\ \A p \in S.room.players : S.room.ready[p]

\* variant of get_max_score whose default has no minimum of 1
get_max_score_no_min(S) ==
    IF S.room.max_score # 0 THEN S.room.max_score
    ELSE (Cardinality(S.room.players) - 1) * 10

\* BaseRoomConfig.get_max_score
get_max_score(S) ==
    IF S.room.max_score # 0 THEN S.room.max_score
    ELSE Max(1, (Cardinality(S.room.players) - 1) * 10)

\* GameController._load_game: attach every client of the room
RECURSIVE load_game(_, _, _)
load_game(S, g, cs) ==
    IF cs = <<>> THEN [S EXCEPT !.games[g].waiting = "pending"]
    ELSE load_game(GameController_attach(S, g, Head(cs)), g, Tail(cs))

\* BaseGame.__init__ + Game.__init__: the avatars of the room's players
RECURSIVE game_avatars(_, _)
game_avatars(S, ps) ==
    IF ps = <<>> THEN S
    ELSE LET p  == Head(ps)
             S1 == get_avatar(S, p, S.room.client[p])
         IN  game_avatars([S1 EXCEPT !.avatars[p] = clear(@)], Tail(ps))

\* variant of new_game without the test of room.game
new_game_unguarded(S) ==
    IF S.room.game_count >= MaxGames THEN [S EXCEPT !.ok = FALSE]
    ELSE LET g  == S.room.game_count + 1
             S1 == game_avatars(S, Sorted(S.room.players))
             S2 == [S1 EXCEPT !.room.game = g,
                              !.room.game_count = g,
                              !.games[g] = [NoGame EXCEPT
                                  !.created = TRUE,
                                  !.avatars = S.room.players,
                                  !.max_score = get_max_score(S),
                                  !.configured = (S.room.max_score # 0),
                                  !.room_ready = room_is_ready(S)]]
         IN  load_game(S2, g, S2.ctl.clients)

\* BaseRoom.new_game, with RoomController._on_game creating the controller
new_game(S) ==
    IF S.room.game # 0 THEN S
    ELSE IF S.room.game_count >= MaxGames THEN [S EXCEPT !.ok = FALSE]
    ELSE LET g  == S.room.game_count + 1
             S1 == game_avatars(S, Sorted(S.room.players))
             S2 == [S1 EXCEPT !.room.game = g,
                              !.room.game_count = g,
                              !.games[g] = [NoGame EXCEPT
                                  !.created = TRUE,
                                  !.avatars = S.room.players,
                                  !.max_score = get_max_score(S),
                                  !.configured = (S.room.max_score # 0),
                                  !.room_ready = room_is_ready(S)]]
         IN  load_game(S2, g, S2.ctl.clients)

\* RoomController._set_room_master (one more set of master listeners on c)
set_room_master(S, c) ==
    IF S.ctl.room_master = 0 /\ c # 0
    THEN [S EXCEPT !.ctl.room_master = c,
                   !.clients[c].master_listeners = @ + 1]
    ELSE S

\* RoomController._nominate_room_master
nominate_room_master(S) ==
    IF S.ctl.clients = <<>> \/ S.ctl.room_master # 0 THEN S
    ELSE LET cand == SelectSeq(S.ctl.clients,
                        LAMBDA c : S.clients[c].active /\ S.clients[c].players # {})
         IN  set_room_master(S, IF cand = <<>> THEN 0 ELSE Head(cand))

\* variant of _remove_room_master that nominates no successor
remove_room_master_only(S) ==
    IF S.ctl.room_master # 0 THEN [S EXCEPT !.ctl.room_master = 0] ELSE S

\* RoomController._remove_room_master
remove_room_master(S) ==
    IF S.ctl.room_master # 0
    THEN nominate_room_master([S EXCEPT !.ctl.room_master = 0])
    ELSE S

\* RoomController._launch
launch(S) == new_game([S EXCEPT !.ctl.launching = FALSE])

\* RoomController.remove_player; Room.remove_player emits player:leave, which
\* RoomController._on_player_leave answers with new_game when the room is ready.
\* A removed player keeps its avatar only while a game still lists it.
remove_player(S, p) ==
    LET c == S.room.client[p]
    IN  IF p \in S.room.players /\ c # 0
        THEN LET S1 == [S EXCEPT !.room.players = @ \ {p}]
                 S2 == IF room_is_ready(S1) THEN new_game(S1) ELSE S1
                 S3 == [S2 EXCEPT !.clients[c].players = @ \ {p},
                                  !.room.client[p] = 0,
                                  !.room.ready[p] = FALSE,
                                  !.avatars[p] =
                                      IF \E g \in Gids : p \in S2.games[g].avatars
                                      THEN @ ELSE NoAvatar]
             IN  IF S3.clients[c].players = {} /\ S3.ctl.room_master = c
                 THEN remove_room_master(S3) ELSE S3
        ELSE S

\* RoomController._on_players_clear
RECURSIVE on_players_clear(_, _)
on_players_clear(S, ps) ==
    IF ps = <<>> THEN S ELSE on_players_clear(remove_player(S, Head(ps)), Tail(ps))

\* SocketClient.clear_players: emits players:clear to the room listeners,
\* then empties the collection
clear_players(S, c) ==
    LET S1 == IF S.clients[c].room_listeners > 0
              THEN on_players_clear(S, Sorted(S.clients[c].players)) ELSE S
    IN  [S1 EXCEPT !.clients[c].players = {}]

\* RoomController.detach
RoomController_detach(S, c) ==
    IF c \in Range(S.ctl.clients)
    THEN LET S1 == [S EXCEPT !.ctl.clients = Without(@, c)]
             S2 == IF S1.room.game # 0
                   THEN GameController_detach(S1, S1.room.game, c) ELSE S1
         IN  clear_players(S2, c)
    ELSE S

\* RoomController.attach + _attach_events + _on_client_add
RoomController_attach(S, c) ==
    IF c \notin Range(S.ctl.clients)
    THEN LET S1 == [S EXCEPT !.ctl.clients = Append(@, c),
                             !.clients[c].room_listeners = @ + 1,
                             !.ok = S.ok /\ S.clients[c].room_listeners < MaxAttach]
             S2 == clear_players(S1, c)
             S3 == IF S2.room.game # 0
                   THEN GameController_attach(S2, S2.room.game, c) ELSE S2
         IN  callback(nominate_room_master(S3), TRUE)
    ELSE callback(S, FALSE)

\* BaseRoomConfig.allow; pw tells whether the password sent is the room's
allow(S, pw) == S.room.open \/ pw

\* RoomsController._on_join_room, for the name of the room
on_join_room(S, c, pw) ==
    IF ~allow(S, pw) THEN callback(S, FALSE) ELSE RoomController_attach(S, c)

\* RoomController._on_player_add, for a valid name that is still free
on_player_add(S, c) ==
    IF S.room.game # 0 THEN callback(S, FALSE)
    ELSE IF c \notin Range(S.ctl.clients) THEN callback(S, FALSE)
    ELSE IF S.room.id_counter >= MaxPlayerId THEN [S EXCEPT !.ok = FALSE]
    ELSE LET p == S.room.id_counter + 1
         IN  nominate_room_master(callback(
                 [S EXCEPT !.room.id_counter = p,
                           !.room.players = @ \cup {p},
                           !.room.client[p] = c,
                           !.room.ready[p] = FALSE,
                           !.clients[c].players = @ \cup {p}], TRUE))

\* RoomController._on_player_remove
on_player_remove(S, c, p) ==
    IF p \in S.clients[c].players THEN callback(remove_player(S, p), TRUE)
    ELSE callback(S, FALSE)

\* RoomController._on_ready (room:ready)
RoomController_on_ready(S, c, p) ==
    IF p \in S.clients[c].players
    THEN LET S1 == callback([S EXCEPT !.room.ready[p] = ~@], TRUE)
         IN  IF room_is_ready(S1) THEN launch(S1) ELSE S1
    ELSE callback(S, FALSE)

\* RoomController._on_launch
on_launch(S, c) ==
    IF S.ctl.room_master = c
    THEN [S EXCEPT !.ctl.launching = ~@]
    ELSE S

\* variant of _on_config_max_score without the test of the room master
on_config_max_score_any(S, c, v) ==
    callback([S EXCEPT !.room.max_score = v], TRUE)

\* RoomController._on_config_max_score with BaseRoomConfig.set_max_score
on_config_max_score(S, c, v) ==
    IF S.ctl.room_master = c
    THEN callback([S EXCEPT !.room.max_score = v], TRUE)
    ELSE callback(S, FALSE)

\* RoomConfig.set_open: a closed room has a generated password
set_open(S, o) ==
    [S EXCEPT !.room.open = o, !.room.password = IF o THEN 0 ELSE 1]

\* RoomController._on_config_open
on_config_open(S, c, o) ==
    IF S.ctl.room_master = c /\ S.room.open # o
    THEN callback(set_open(S, o), TRUE)
    ELSE callback(S, FALSE)

\* ---- listener fan-out ------------------------------------------------------------
\* EventEmitter.emit runs every registered listener; listeners are never removed,
\* so a session that attached n times runs a room handler n times.
RECURSIVE emit_room_ready(_, _, _, _)
emit_room_ready(S, c, p, n) ==
    IF n = 0 THEN S ELSE emit_room_ready(RoomController_on_ready(S, c, p), c, p, n - 1)

RECURSIVE emit_launch(_, _, _)
emit_launch(S, c, n) ==
    IF n = 0 THEN S ELSE emit_launch(on_launch(S, c), c, n - 1)

\* player:add: a listener after the first finds the name taken by the player
\* the first one added, or refuses as the first one did
RECURSIVE emit_player_add(_, _, _)
emit_player_add(S, c, n) ==
    IF n = 0 THEN S
    ELSE IF S.replies = <<>> THEN emit_player_add(on_player_add(S, c), c, n - 1)
    ELSE emit_player_add(callback(S, FALSE), c, n - 1)

RECURSIVE emit_player_remove(_, _, _, _)
emit_player_remove(S, c, p, n) ==
    IF n = 0 THEN S ELSE emit_player_remove(on_player_remove(S, c, p), c, p, n - 1)

RECURSIVE emit_players_clear(_, _, _)
emit_players_clear(S, c, n) ==
    IF n = 0 THEN S
    ELSE emit_players_clear(on_players_clear(S, Sorted(S.clients[c].players)), c, n - 1)

RECURSIVE emit_config_max_score(_, _, _, _)
emit_config_max_score(S, c, v, n) ==
    IF n = 0 THEN S
    ELSE emit_config_max_score(on_config_max_score(S, c, v), c, v, n - 1)

RECURSIVE emit_config_open(_, _, _, _)
emit_config_open(S, c, o, n) ==
    IF n = 0 THEN S ELSE emit_config_open(on_config_open(S, c, o), c, o, n - 1)

\* the n ready listeners the controller of game g registered on c
RECURSIVE emit_ready_to(_, _, _, _)
emit_ready_to(S, c, g, n) ==
    IF n = 0 THEN S ELSE emit_ready_to(GameController_on_ready(S, g, c), c, g, n - 1)

\* the ready listeners of c, in the order the game controllers registered them
RECURSIVE emit_ready(_, _, _)
emit_ready(S, c, gs) ==
    IF gs = <<>> THEN S
    ELSE emit_ready(emit_ready_to(S, c, Head(gs), S.clients[c].ready_listeners[Head(gs)]),
                    c, Tail(gs))

\* ---- actions: inbound messages ----------------------------------------------------
Connected(c) == ~clients[c].closed
InRoom(c)    == clients[c].room_listeners > 0

\* room:join -> RoomsController._on_join_room -> RoomController.attach
RoomJoin(c, pw) ==
    /\ Connected(c)
    /\ c \notin Range(ctl.clients)
    /\ Handled(on_join_room(Cur, c, pw))

\* room:leave -> RoomController._on_leave
RoomLeave(c) ==
    /\ Connected(c) /\ InRoom(c)
    /\ Handled(RoomController_detach(Cur, c))

\* SocketClient.on_close -> close -> RoomController._on_leave
Close(c) ==
    /\ Connected(c)
    /\ LET S == IF InRoom(c) THEN RoomController_detach(Cur, c) ELSE Cur
       IN  Handled([S EXCEPT !.clients[c].closed = TRUE])

\* player:add
PlayerAdd(c) ==
    /\ Connected(c) /\ InRoom(c)
    /\ Handled(emit_player_add(Cur, c, clients[c].room_listeners))

\* player:remove
PlayerRemove(c, p) ==
    /\ Connected(c) /\ InRoom(c)
    /\ p \in clients[c].players
    /\ Handled(emit_player_remove(Cur, c, p, clients[c].room_listeners))

\* players:clear received from the wire
PlayersClear(c) ==
    /\ Connected(c) /\ InRoom(c)
    /\ clients[c].players # {}
    /\ Handled(emit_players_clear(Cur, c, clients[c].room_listeners))

\* room:ready
RoomReady(c, p) ==
    /\ Connected(c) /\ InRoom(c)
    /\ p \in clients[c].players
    /\ Handled(emit_room_ready(Cur, c, p, clients[c].room_listeners))

\* room:launch
RoomLaunch(c) ==
    /\ Connected(c)
    /\ clients[c].master_listeners > 0
    /\ Handled(emit_launch(Cur, c, clients[c].master_listeners))

\* room:config:max-score
ConfigMaxScore(c, v) ==
    /\ Connected(c)
    /\ clients[c].master_listeners > 0
    /\ Handled(emit_config_max_score(Cur, c, v, clients[c].master_listeners))

\* room:config:open
ConfigOpen(c, o) ==
    /\ Connected(c)
    /\ clients[c].master_listeners > 0
    /\ Handled(emit_config_open(Cur, c, o, clients[c].master_listeners))

\* activity -> SocketClient._on_activity
Activity(c, b) ==
    /\ Connected(c)
    /\ clients[c].active # b
    /\ Handled([Cur EXCEPT !.clients[c].active = b])

\* ready -> GameController._on_ready of every controller c was attached to
Ready(c) ==
    /\ Connected(c)
    /\ \E g \in Gids : clients[c].ready_listeners[g] > 0
    /\ Handled(emit_ready(Cur, c, Sorted(Gids)))

\* ---- actions: timers and the loop -------------------------------------------------
\* RoomController._launch run by the launch timer
LaunchTimer ==
    /\ ctl.launching
    /\ Fired(launch(Cur))

\* GameController._stop_waiting run by the waiting timer
WaitingTimer(g) ==
    /\ games[g].waiting = "pending"
    /\ Fired(stop_waiting(Cur, g))

\* BaseGame.start run by the warmup timer of new_round
StartTimer(g) ==
    /\ games[g].start_timer
    /\ Fired(start([Cur EXCEPT !.games[g].start_timer = FALSE], g))

\* BaseGame.stop run by the warmdown timer of end_round; a warmup timer still
\* pending was armed earlier, and fires first unless it is the longer one
StopTimer(g) ==
    /\ games[g].stop_timer
    /\ games[g].start_timer => warmdown_time < warmup_time
    /\ Fired(stop([Cur EXCEPT !.games[g].stop_timer = FALSE], g))

\* one frame of BaseGame._run_loop: K are the avatars that collide in the frame,
\* caught the bonuses picked up by avatars that survive it
Tick(g, K, caught) ==
    /\ games[g].frame_task
    /\ K \subseteq get_alive_avatars(Cur, g)
    /\ caught \in 0..games[g].bonuses
    /\ caught > 0 => get_alive_avatars(Cur, g) \ K # {}
    /\ Fired(update(Cur, g, K, caught))

\* BonusManager.pop_bonus run by the poping timer
PopBonus(g) ==
    /\ games[g].poping_timeout
    /\ Fired(pop_bonus(Cur, g))

Next ==
    \/ \E c \in Clients, pw \in BOOLEAN : RoomJoin(c, pw)
    \/ \E c \in Clients : RoomLeave(c)
    \/ \E c \in Clients : Close(c)
    \/ \E c \in Clients : PlayerAdd(c)
    \/ \E c \in Clients, p \in Pids : PlayerRemove(c, p)
    \/ \E c \in Clients : PlayersClear(c)
    \/ \E c \in Clients, p \in Pids : RoomReady(c, p)
    \/ \E c \in Clients : RoomLaunch(c)
    \/ \E c \in Clients, v \in ScoreInputs : ConfigMaxScore(c, v)
    \/ \E c \in Clients, o \in BOOLEAN : ConfigOpen(c, o)
    \/ \E c \in Clients, b \in BOOLEAN : Activity(c, b)
    \/ \E c \in Clients : Ready(c)
    \/ LaunchTimer
    \/ \E g \in Gids : WaitingTimer(g)
    \/ \E g \in Gids : StartTimer(g)
    \/ \E g \in Gids : StopTimer(g)
    \/ \E g \in Gids, K \in SUBSET Pids, n \in 0..MaxBonuses : Tick(g, K, n)
    \/ \E g \in Gids : PopBonus(g)

Spec == Init /\ [][Next]_vars

\* ==== room repository and the close timer ==========================================
\* The repository layer is modelled on its own state, `repository`: the rooms of
\* this layer are Room objects 1..MaxRooms, told apart from their names. No
\* handler of this layer changes a room's configuration, so every room is open
\* (RoomConfig.open is True at construction) and RoomConfig.allow lets every
\* join request through.

Rooms == 1..MaxRooms

\* the characters of a requested name: a letter and whitespace
Chars == {"a", " "}

ShortNames == UNION {[1..n -> Chars] : n \in 0..MaxNameLen}

\* a name one character short of Room.max_length
Fill == [i \in 1..(max_length - 1) |-> "a"]

\* data['name'] of room:create and room:join
RawNames == ShortNames \cup {Fill \o t : t \in ShortNames}

\* RoomNameGenerator.get_name: one of the generator's finitely many names,
\* each of which a client may also ask for
GenNames == {<<"a">>, <<"a", " ", "a">>}

\* str[:n]
Truncate(str, n) == IF Len(str) <= n THEN str ELSE SubSeq(str, 1, n)

RECURSIVE lstrip(_)
lstrip(str) ==
    IF str # <<>> /\ Head(str) = " " THEN lstrip(Tail(str)) ELSE str

RECURSIVE rstrip(_)
rstrip(str) ==
    IF str # <<>> /\ str[Len(str)] = " "
    THEN rstrip(SubSeq(str, 1, Len(str) - 1)) ELSE str

\* str.strip()
strip(str) == rstrip(lstrip(str))

\* Collection.ids of repository.rooms
ids(R) == {R.name[R.rooms[i]] : i \in 1..Len(R.rooms)}

\* Collection.exists: by key
Collection_exists(R, nm) == nm \in ids(R)

\* list.index of the key
index(R, nm) == CHOOSE i \in 1..Len(R.rooms) :
    /\ R.name[R.rooms[i]] = nm
    /\ \A j \in 1..(i - 1) : R.name[R.rooms[j]] # nm

\* Collection.add without the test for an existing key
Collection_add_any(R, r, nm) ==
    [rep |-> [R EXCEPT !.rooms = Append(@, r), !.name[r] = nm], added |-> TRUE]

\* Collection.add
Collection_add(R, r, nm) ==
    IF Collection_exists(R, nm) THEN [rep |-> R, added |-> FALSE]
    ELSE [rep |-> [R EXCEPT !.rooms = Append(@, r), !.name[r] = nm], added |-> TRUE]

\* Collection.remove: the element is looked up by its key
Collection_remove(R, nm) ==
    IF nm \in ids(R)
    THEN LET i == index(R, nm)
         IN [rep |-> [R EXCEPT !.rooms = SubSeq(@, 1, i - 1) \o SubSeq(@, i + 1, Len(@))],
             removed |-> R.rooms[i]]
    ELSE [rep |-> R, removed |-> 0]

\* how long room r has had no client (0 while it has one)
EmptyFor(R, r) == IF R.attached[r] # {} THEN 0 ELSE R.now - R.empty_since[r]

\* RoomController._prompt_check_for_close
prompt_check_for_close(R, r) ==
    IF R.attached[r] = {}
    THEN [R EXCEPT !.checks = Append(@, [room |-> r, due |-> R.now + time_to_close])]
    ELSE R

\* RoomRepository.remove, reached through _on_room_close
RoomRepository_remove(R, r) ==
    LET res == Collection_remove(R, R.name[r])
        v   == res.removed
    IN IF v = 0 THEN R
       ELSE [res.rep EXCEPT !.closes = @ + 1,
                            !.waited[v] = IF v = r THEN @ ELSE EmptyFor(R, v)]

\* Room.close: emits close, which the repository listens to
Room_close(R, r) ==
    RoomRepository_remove(
        [R EXCEPT !.waited[r] = IF r \in Range(R.rooms) THEN EmptyFor(R, r) ELSE @], r)

\* RoomController._check_for_close
check_for_close(R, r) ==
    IF R.attached[r] = {} THEN Room_close(R, r) ELSE R

\* RoomRepository.get_random_room_name draws g until it is no registered name
\* RoomRepository.create, with RoomController.__init__
RoomRepository_create(R, nm, g) ==
    LET name == IF nm = <<>> THEN g ELSE nm
        r    == R.made + 1
        res  == Collection_add(R, r, name)
    IN IF ~res.added THEN [rep |-> R, room |-> 0]
       ELSE [rep |-> prompt_check_for_close(
                       [res.rep EXCEPT !.made = r, !.opens = @ + 1,
                                       !.empty_since[r] = R.now], r),
             room |-> r]

\* RoomsController._on_create_room
on_create_room(R, raw, g) ==
    LET name == IF raw # <<>> THEN strip(Truncate(raw, max_length)) ELSE <<>>
        res  == RoomRepository_create(R, name, g)
    IN [res.rep EXCEPT !.last = <<"create", res.room # 0>>]

\* RoomController.attach, as far as the repository layer sees it
Repo_attach(R, r, c) ==
    IF c \in R.attached[r] THEN [R EXCEPT !.last = <<"join", FALSE>>]
    ELSE [R EXCEPT !.attached[r] = @ \cup {c}, !.last = <<"join", TRUE>>]

\* RoomsController._on_join_room
Repo_on_join_room(R, c, raw) ==
    IF raw \notin ids(R) THEN [R EXCEPT !.last = <<"join", FALSE>>]
    ELSE Repo_attach(R, R.rooms[index(R, raw)], c)

\* RoomController.detach, as far as the repository layer sees it
Repo_detach(R, r, c) ==
    IF c \in R.attached[r]
    THEN prompt_check_for_close(
            [R EXCEPT !.attached[r] = @ \ {c},
                      !.empty_since[r] = IF R.attached[r] = {c} THEN R.now ELSE @], r)
    ELSE R

\* room:leave or close of session c: the _on_leave listener of every room the
\* session was attached to runs
RECURSIVE Repo_on_leave(_, _, _)
Repo_on_leave(R, c, r) ==
    IF r > MaxRooms THEN R ELSE Repo_on_leave(Repo_detach(R, r, c), c, r + 1)

RepoCommit(R) ==
    /\ Len(R.checks) <= MaxChecks
    /\ repository' = R
    /\ UNCHANGED <<roomvars, wire, inbox, field, bonusplay, config, world, lobby>>

\* room:create from a client
CreateRoom(raw, g) ==
    /\ repository.made < MaxRooms
    /\ g \notin ids(repository)
    /\ RepoCommit(on_create_room(repository, raw, g))

\* room:join from client c
JoinRoom(c, raw) ==
    /\ RepoCommit(Repo_on_join_room(repository, c, raw))

\* room:leave from client c, or its disconnection
LeaveRoom(c) ==
    /\ \E r \in Rooms : c \in repository.attached[r]
    /\ RepoCommit([Repo_on_leave(repository, c, 1) EXCEPT !.last = <<"leave", TRUE>>])

\* the head of the loop's timer heap is due
Due(i) ==
    /\ repository.checks[i].due <= repository.now
    /\ \A j \in 1..Len(repository.checks) :
          repository.checks[j].due >= repository.checks[i].due

\* the event loop runs a due _check_for_close
CheckForClose(i) ==
    /\ i <= Len(repository.checks)
    /\ Due(i)
    /\ LET R == repository
           k == R.checks[i]
       IN RepoCommit(check_for_close(
             [R EXCEPT !.checks = SubSeq(@, 1, i - 1) \o SubSeq(@, i + 1, Len(@)),
                       !.last = <<"timer", TRUE>>], k.room))

\* time passes while no timer is due
Advance ==
    /\ repository.now < MaxClock * (time_to_close \div 2)
    /\ \A i \in 1..Len(repository.checks) : repository.checks[i].due > repository.now
    /\ RepoCommit([repository EXCEPT !.now = @ + (time_to_close \div 2),
                                     !.last = <<"none", FALSE>>])

RepoNext ==
    \/ \E raw \in RawNames, g \in GenNames : CreateRoom(raw, g)
    \/ \E c \in Clients, raw \in RawNames : JoinRoom(c, raw)
    \/ \E c \in Clients : LeaveRoom(c)
    \/ \E i \in 1..MaxChecks : CheckForClose(i)
    \/ Advance

RepoSpec == Init /\ [][RepoNext]_vars

\* ==== one session's transport ======================================================
\* One SocketClient of the server (interval = 0.001 s, so only forced events
\* and replies are sent at once), the tasks it creates and the event loop that
\* runs them: asyncio.create_task and the wake-up of a task append to the
\* loop's ready queue, which the loop runs first in, first out. The handler is
\* the task of Server.handle_websocket. An entry of the outbox or of a frame
\* stands for the events that consecutive add_event calls put there.

Task(t) == [t |-> t, evs |-> <<>>]

\* asyncio.create_task
create_task(W, task) == [W EXCEPT !.ready = Append(@, task)]

\* the event list built by add_event / add_callback
new_event(W, how) == [id |-> W.issued + 1, tick |-> W.tick, how |-> how]

\* BaseSocketClient.add_event
add_event(W, force) ==
    LET W1 == [W EXCEPT !.issued = @ + 1]
    IN IF force
       THEN create_task(W1, [t |-> "send", evs |-> <<new_event(W, "forced")>>])
       ELSE [W1 EXCEPT !.events = Append(@, new_event(W, "queued")),
                       !.log = Append(@, new_event(W, "queued"))]

\* BaseSocketClient.add_callback
add_callback(W) ==
    create_task([W EXCEPT !.issued = @ + 1],
                [t |-> "send", evs |-> <<new_event(W, "reply")>>])

\* BaseSocketClient.send_events up to the call of socket.send_text
send_events(W, evs, flushed) ==
    IF W.connected
    THEN [W EXCEPT !.sent = Append(@, [flush |-> flushed, evs |-> evs])]
    ELSE W

\* the body of the send task of add_event / add_callback
send_task(W, evs) ==
    IF W.connected
    THEN [send_events(W, evs, FALSE) EXCEPT !.inflight = @ + 1]
    ELSE W

\* `while self.connected` of _flush_loop, then asyncio.sleep
flush_loop_top(W) == [W EXCEPT !.loop = IF W.connected THEN "sleep" ELSE "done"]

\* BaseSocketClient.flush that leaves the outbox as it is
flush_keep(W) ==
    IF W.events = <<>> THEN flush_loop_top(W)
    ELSE IF W.connected
         THEN [send_events(W, W.events, TRUE) EXCEPT !.loop = "send"]
         ELSE flush_loop_top([W EXCEPT !.dropped = @ \o W.events])

\* BaseSocketClient.flush, called by _flush_loop
flush(W) ==
    IF W.events = <<>> THEN flush_loop_top(W)
    ELSE IF W.connected
         THEN [send_events(W, W.events, TRUE) EXCEPT !.events = <<>>, !.loop = "send"]
         ELSE flush_loop_top([W EXCEPT !.events = <<>>, !.dropped = @ \o W.events])

\* a task waiting for the flush loop task is woken
wake_handler(W) ==
    IF W.handler = "closing_loop" THEN create_task(W, Task("handler")) ELSE W

\* one step of the task running BaseSocketClient._flush_loop
flush_loop(W) ==
    IF W.loop_cancel
    THEN wake_handler([W EXCEPT !.loop = "cancelled", !.loop_cancel = FALSE])
    ELSE IF W.loop = "new" THEN flush_loop_top(W)
    ELSE IF W.loop = "woken" THEN flush(W)
    ELSE W

\* the tasks waiting for the ping task are woken, in the order they waited
wake_waiters(W) ==
    [W EXCEPT !.ready = @ \o [i \in 1..Len(W.waiters) |-> Task(W.waiters[i])],
              !.waiters = <<>>]

\* `while self.connected` of _ping_loop, then asyncio.sleep
ping_loop_top(W) ==
    IF W.connected THEN [W EXCEPT !.ping = "sleep"]
    ELSE wake_waiters([W EXCEPT !.ping = "done"])

\* one step of the task running SocketClient._ping_loop
ping_loop(W) ==
    IF W.ping_cancel
    THEN wake_waiters([W EXCEPT !.ping = "cancelled", !.ping_cancel = FALSE])
    ELSE IF W.ping = "new" THEN ping_loop_top(W)
    ELSE IF W.ping = "woken"
         THEN ping_loop_top(IF W.connected THEN add_event(W, TRUE) ELSE W)
    ELSE W

PingDone(W) == W.ping \in {"none", "done", "cancelled"}
LoopDone(W) == W.loop \in {"done", "cancelled"}

\* SocketClient.start_ping
start_ping(W) ==
    IF ~W.ping_task
    THEN create_task([W EXCEPT !.ping = "new", !.ping_task = TRUE], Task("ping"))
    ELSE W

\* Task.cancel of the ping task: a task waiting in sleep is woken
cancel_ping(W) ==
    IF PingDone(W) \/ W.ping_cancel THEN W
    ELSE IF W.ping = "sleep"
         THEN create_task([W EXCEPT !.ping_cancel = TRUE], Task("ping"))
         ELSE [W EXCEPT !.ping_cancel = TRUE]

\* SocketClient.stop_ping run by `who`, up to its return or its wait for the
\* ping task
stop_ping(W, who) ==
    IF ~W.ping_task THEN [W EXCEPT !.handler = IF who = "handler" THEN "closed" ELSE @]
    ELSE LET W1 == cancel_ping(W)
         IN IF PingDone(W1)
            THEN [W1 EXCEPT !.ping_task = FALSE,
                            !.handler = IF who = "handler" THEN "closed" ELSE @]
            ELSE [W1 EXCEPT !.waiters = Append(@, who),
                            !.handler = IF who = "handler" THEN "closing_ping" ELSE @]

\* SocketClient.stop_ping after its wait
stop_ping_resume(W, who) ==
    [W EXCEPT !.ping_task = FALSE,
              !.handler = IF who = "handler" THEN "closed" ELSE @]

\* Task.cancel of the flush loop task
cancel_loop(W) ==
    IF LoopDone(W) \/ W.loop_cancel THEN W
    ELSE IF W.loop \in {"sleep", "send"}
         THEN create_task([W EXCEPT !.loop_cancel = TRUE], Task("loop"))
         ELSE [W EXCEPT !.loop_cancel = TRUE]

\* SocketClient.stop / BaseSocketClient.stop, up to its return or its first wait
SocketClient_stop(W) ==
    LET W1 == cancel_loop(W)
    IN IF LoopDone(W1) THEN stop_ping(W1, "handler")
       ELSE [W1 EXCEPT !.handler = "closing_loop"]

\* GameController.attach of the session
game_attach(W) ==
    create_task(add_event([W EXCEPT !.in_game = TRUE], FALSE), Task("start_ping"))

\* GameController.detach of the session
game_detach(W) ==
    IF W.in_game
    THEN create_task([W EXCEPT !.in_game = FALSE, !.avatar = FALSE], Task("stop_ping"))
    ELSE W

\* RoomController.detach of the session
room_detach(W) ==
    IF W.in_room THEN [game_detach(W) EXCEPT !.in_room = FALSE] ELSE W

\* BaseSocketClient.on_close
on_close(W) ==
    SocketClient_stop(room_detach([W EXCEPT !.connected = FALSE, !.closed_at = Len(W.sent)]))

\* the handler goes on after the wait it was in
handler_resume(W) ==
    IF W.handler = "closing_loop" THEN stop_ping(W, "handler")
    ELSE IF W.handler = "closing_ping" THEN stop_ping_resume(W, "handler")
    ELSE W

\* the event loop runs the callback h
run(W, h) ==
    CASE h.t = "send"       -> send_task(W, h.evs)
      [] h.t = "start_ping" -> start_ping(W)
      [] h.t = "stop_ping"  -> stop_ping(W, "stopper")
      [] h.t = "stopper"    -> stop_ping_resume(W, "stopper")
      [] h.t = "loop"       -> flush_loop(W)
      [] h.t = "ping"       -> ping_loop(W)
      [] h.t = "handler"    -> handler_resume(W)

WireCommit(W) ==
    /\ Len(W.ready) <= MaxReady
    /\ W.issued <= MaxIssue
    /\ wire' = W
    /\ UNCHANGED <<roomvars, repository, inbox, field, bonusplay, config, world, lobby>>

Receiving == wire.handler = "recv"

\* room:join: RoomController.attach, with or without a game in the room
WireJoinRoom(g) ==
    /\ Receiving /\ ~wire.in_room
    /\ LET W1 == [wire EXCEPT !.in_room = TRUE]
           W2 == IF g THEN game_attach(W1) ELSE W1
       IN WireCommit(add_event(add_callback(add_event(W2, FALSE)), FALSE))

\* room:leave: RoomController.detach
WireLeaveRoom ==
    /\ Receiving /\ wire.in_room
    /\ WireCommit(room_detach(wire))

\* pong: SocketClient._on_pong
Pong ==
    /\ Receiving
    /\ WireCommit(add_event(wire, TRUE))

\* a game of the session's room starts: RoomController._on_game and the
\* GameController's attach of the room's sessions
GameStart ==
    /\ wire.in_room /\ ~wire.in_game
    /\ WireCommit([game_attach(add_event(wire, FALSE)) EXCEPT !.avatar = TRUE])

\* the game ends: GameController detaches its sessions
GameEnd ==
    /\ wire.in_game
    /\ WireCommit(game_detach(add_event(wire, FALSE)))

\* a game tick whose mutations are sent to the session
GameTick ==
    /\ wire.in_game /\ wire.tick < MaxTick
    /\ WireCommit(add_event([wire EXCEPT !.tick = @ + 1], FALSE))

\* websocket.receive_text raises: Server._on_socket_disconnection
WireClose ==
    /\ Receiving
    /\ WireCommit(on_close(wire))

\* the event loop runs the first callback of its ready queue
RunReady ==
    /\ wire.ready # <<>>
    /\ WireCommit(run([wire EXCEPT !.ready = Tail(@)], Head(wire.ready)))

\* asyncio.sleep(self.interval) of the flush loop is over
FlushTimer ==
    /\ wire.loop = "sleep" /\ ~wire.loop_cancel
    /\ WireCommit(create_task([wire EXCEPT !.loop = "woken"], Task("loop")))

\* asyncio.sleep(self.ping_interval) of the ping loop is over
PingTimer ==
    /\ wire.ping = "sleep" /\ ~wire.ping_cancel
    /\ WireCommit(create_task([wire EXCEPT !.ping = "woken"], Task("ping")))

\* socket.send_text of the flush returns (ok) or raises
FlushSent(ok) ==
    /\ wire.loop = "send" /\ ~wire.loop_cancel
    /\ WireCommit(flush_loop_top([wire EXCEPT !.connected = @ /\ ok]))

\* socket.send_text of a send task returns (ok) or raises
TaskSent(ok) ==
    /\ wire.inflight > 0
    /\ WireCommit([wire EXCEPT !.inflight = @ - 1, !.connected = @ /\ ok])

WireNext ==
    \/ \E g \in BOOLEAN : WireJoinRoom(g)
    \/ WireLeaveRoom
    \/ Pong
    \/ GameStart
    \/ GameEnd
    \/ GameTick
    \/ WireClose
    \/ RunReady
    \/ FlushTimer
    \/ PingTimer
    \/ \E ok \in BOOLEAN : FlushSent(ok)
    \/ \E ok \in BOOLEAN : TaskSent(ok)

WireSpec == Init /\ [][WireNext]_vars

\* ==== inbound frames ===============================================================
\* The text of a frame is modelled by what json.loads makes of it: "invalid"
\* (no JSON), a number, null or boolean ("atom"), a string, an object, or an
\* array. A message is such a value too; an array message [name, data, id] is
\* kept as its name and its length. The names are the events a SocketClient
\* listens to by itself (whoami, activity), a name nobody listens to (nope)
\* and a number (the id of a reply from the client).

Names == {"whoami", "activity", "nope", "7"}

Json(k, name, len) == [k |-> k, name |-> name, len |-> len]

Messages ==
    {Json("atom", "", 0), Json("str", "", 1), Json("obj", "", 1)}
    \cup {Json("arr", n, l) : n \in Names, l \in 1..3}
    \cup {Json("arr", "", 0)}

FrameTexts ==
    {<<k, <<>>>> : k \in {"invalid", "atom"}}
    \cup {<<k, [i \in 1..n |-> Json("str", "", 1)]>> : k \in {"str", "obj"}, n \in 0..MaxMsgs}
    \cup {<<"arr", m>> : m \in UNION {[1..n -> Messages] : n \in 0..MaxMsgs}}

\* SocketClient._identify: callback = event[1]; callback(self.id)
identify(I, replying) ==
    IF replying
    THEN [I EXCEPT !.replies = @ + 1, !.log = Append(@, "replied")]
    ELSE [I EXCEPT !.log = Append(@, "raised")]

\* EventEmitter.emit of an inbound event
emit_inbound(I, name, replying) ==
    IF name = "whoami" THEN identify(I, replying)
    ELSE IF name = "activity" THEN [I EXCEPT !.log = Append(@, "handled")]
    ELSE [I EXCEPT !.log = Append(@, "ignored")]

\* the body of `for source in messages`, with its try / except
on_source(I, source) ==
    IF source.k \in {"atom", "obj"} \/ source.len = 0
    THEN [I EXCEPT !.log = Append(@, "raised")]
    ELSE IF source.k = "str" THEN emit_inbound(I, "a", FALSE)
    ELSE IF source.name = "7" THEN [I EXCEPT !.log = Append(@, "ignored")]
    ELSE emit_inbound(I, source.name, source.len = 3)

RECURSIVE on_sources(_, _)
on_sources(I, messages) ==
    IF messages = <<>> THEN I
    ELSE on_sources(on_source(I, Head(messages)), Tail(messages))

\* BaseSocketClient.on_message run by Server.handle_websocket: what is not
\* caught in on_message ends the receive loop
on_message(I, text) ==
    LET I1 == [I EXCEPT !.frames = @ + 1]
    IN IF text[1] = "invalid" THEN I1
       ELSE IF text[1] = "atom" THEN [I1 EXCEPT !.open = FALSE]
       ELSE on_sources(I1, text[2])

InboxCommit(I) ==
    /\ inbox' = I
    /\ UNCHANGED <<roomvars, repository, wire, field, bonusplay, config, world, lobby>>

\* websocket.receive_text returns a frame
ReceiveText(text) ==
    /\ inbox.open /\ inbox.frames < MaxFrames
    /\ InboxCommit(on_message(inbox, text))

\* websocket.receive_text raises WebSocketDisconnect
Disconnect ==
    /\ inbox.open
    /\ InboxCommit([inbox EXCEPT !.open = FALSE])

InboxNext ==
    \/ \E text \in FrameTexts : ReceiveText(text)
    \/ Disconnect

InboxSpec == Init /\ [][InboxNext]_vars

\* ==== the world of one round: trails, collisions, walls ==============================
\* A frame moves every avatar by Step along one of the four axis directions; the
\* player's move input turns it by a quarter turn or not at all.

Avs == 1..NumAvatars

\* points of the map at which World.get_random_position puts an avatar, with the
\* direction World.get_random_direction gives it (quarter turns)
Spawns ==
    {[a \in Avs |-> <<95 - 20 * a, 85 - 10 * a, IF a = 1 THEN a1 ELSE 0>>] : a1 \in {2, 3}}

\* what the player's move input does to the direction in one frame: nothing, or
\* a quarter turn to the left
Moves == {0, 1}

Sq(n) == n * n

\* int(a / b) of Python for b > 0: towards zero
Trunc(a, b) == IF a >= 0 THEN a \div b ELSE -((-a) \div b)

\* BaseAvatar.update_velocities on the four directions
velocity_x(angle) == IF angle = 0 THEN Step ELSE IF angle = 2 THEN -Step ELSE 0
velocity_y(angle) == IF angle = 1 THEN Step ELSE IF angle = 3 THEN -Step ELSE 0

\* World.__init__: islands per side
islands(F) == round_div(F.size, island_grid_size)

\* AvatarBody.__init__ without the counter's increment
AvatarBody(F, a, x, y) ==
    [x |-> x, y |-> y, radius |-> F.av[a].radius, data |-> a, num |-> F.av[a].body_count]

\* Avatar.body, the head
head(F, a) ==
    [x |-> F.av[a].x, y |-> F.av[a].y, radius |-> F.av[a].radius, data |-> a, num |-> F.av[a].num]

\* AvatarBody.match with the comparison of the trail latency left open
match_ge(self, body) ==
    IF self.data = body.data
    THEN body.num - self.num >= DEFAULT_TRAIL_LATENCY
    ELSE TRUE

\* AvatarBody.match
match(self, body) ==
    IF self.data = body.data
    THEN body.num - self.num > DEFAULT_TRAIL_LATENCY
    ELSE TRUE

\* Island.bodies_touch: distance < radius and match
bodies_touch(body_a, body_b) ==
    /\ Sq(body_a.x - body_b.x) + Sq(body_a.y - body_b.y) < Sq(body_a.radius + body_b.radius)
    /\ match(body_a, body_b)

\* World.get_island_by_point: <<x, y>> of the island, <<>> when there is none
get_island_by_point(F, px, py) ==
    LET x == Trunc(px * islands(F), F.size)
        y == Trunc(py * islands(F), F.size)
    IN IF x \in 0..(islands(F) - 1) /\ y \in 0..(islands(F) - 1) THEN <<x, y>> ELSE <<>>

\* the four points World.add_body and World.get_body go through, in their order
corners(body) ==
    << <<body.x - body.radius, body.y - body.radius>>,
       <<body.x + body.radius, body.y - body.radius>>,
       <<body.x - body.radius, body.y + body.radius>>,
       <<body.x + body.radius, body.y + body.radius>> >>

\* Island.bodies of island isl: the bodies World.add_body added to it
island_has(F, isl, body) ==
    \E k \in 1..4 : get_island_by_point(F, corners(body)[k][1], corners(body)[k][2]) = isl

\* Island.body_in_bound for the island's own bounds
body_in_bound(F, isl, body) ==
    /\ (body.x + body.radius) * islands(F) > isl[1] * F.size
    /\ (body.x - body.radius) * islands(F) < (isl[1] + 1) * F.size
    /\ (body.y + body.radius) * islands(F) > isl[2] * F.size
    /\ (body.y - body.radius) * islands(F) < (isl[2] + 1) * F.size

\* Island.get_body: index in F.bodies of the first body touched, 0 for None
Island_get_body(F, isl, body) ==
    LET hit == {i \in 1..Len(F.bodies) :
                    island_has(F, isl, F.bodies[i]) /\ bodies_touch(F.bodies[i], body)}
    IN IF body_in_bound(F, isl, body) /\ hit # {} THEN MinOf(hit) ELSE 0

\* World._get_body_by_point
get_body_by_point(F, body, k) ==
    LET isl == get_island_by_point(F, corners(body)[k][1], corners(body)[k][2])
    IN IF isl = <<>> THEN 0 ELSE Island_get_body(F, isl, body)

\* World.get_body: the four points in turn, the first hit wins
World_get_body(F, body) ==
    LET k == {j \in 1..4 : get_body_by_point(F, body, j) # 0}
    IN IF k = {} THEN 0 ELSE get_body_by_point(F, body, MinOf(k))

\* World.add_body reached from Game._on_point
World_add_body(F, body) ==
    IF F.started /\ F.active THEN [F EXCEPT !.bodies = Append(@, body)] ELSE F

\* Avatar.add_point: the trail takes the point, the 'point' event makes a body
Avatar_add_point(F, a) ==
    LET body == AvatarBody(F, a, F.av[a].x, F.av[a].y)
        F1   == IF F.started /\ F.active
                THEN [F EXCEPT !.av[a].body_count = @ + 1]
                ELSE F
    IN World_add_body([F1 EXCEPT !.av[a].last = <<F.av[a].x, F.av[a].y>>], body)

\* Avatar.set_position
Avatar_set_position(F, a, x, y) ==
    [F EXCEPT !.av[a].x = x, !.av[a].y = y, !.av[a].num = F.av[a].body_count]

\* BaseAvatar.set_printing
Avatar_set_printing(F, a, printing) ==
    IF F.av[a].printing = printing THEN F
    ELSE LET F1 == Avatar_add_point([F EXCEPT !.av[a].printing = printing], a)
         IN IF ~printing THEN [F1 EXCEPT !.av[a].last = <<>>] ELSE F1

\* PrintManager.start
PrintManager_start(F, a) ==
    IF F.av[a].pm_active THEN F
    ELSE Avatar_set_printing([F EXCEPT !.av[a].pm_active = TRUE], a, TRUE)

\* PrintManager.stop
PrintManager_stop(F, a) ==
    IF F.av[a].pm_active
    THEN Avatar_set_printing([F EXCEPT !.av[a].pm_active = FALSE], a, FALSE)
    ELSE F

\* Avatar.is_time_to_draw
is_time_to_draw(F, a) ==
    \/ F.av[a].last = <<>>
    \/ Sq(F.av[a].last[1] - F.av[a].x) + Sq(F.av[a].last[2] - F.av[a].y) > Sq(F.av[a].radius)

\* Avatar.update with the player's move mv
Avatar_update(F, a, mv) ==
    LET angle == (F.av[a].angle + mv) % 4
        F1 == Avatar_set_position([F EXCEPT !.av[a].angle = angle], a,
                                  F.av[a].x + velocity_x(angle), F.av[a].y + velocity_y(angle))
    IN IF F1.av[a].printing /\ is_time_to_draw(F1, a) THEN Avatar_add_point(F1, a) ELSE F1

\* World.get_bound_intersect: the point on the wall, <<>> for None
get_bound_intersect(F, body, margin) ==
    IF body.x - margin < 0 THEN <<0, body.y>>
    ELSE IF body.x + margin > F.size THEN <<F.size, body.y>>
    ELSE IF body.y - margin < 0 THEN <<body.x, 0>>
    ELSE IF body.y + margin > F.size THEN <<body.x, F.size>>
    ELSE <<>>

\* World.get_opposite
get_opposite(F, x, y) ==
    IF x = 0 THEN <<F.size, y>>
    ELSE IF x = F.size THEN <<0, y>>
    ELSE IF y = 0 THEN <<x, F.size>>
    ELSE IF y = F.size THEN <<x, 0>>
    ELSE <<x, y>>

\* Game.check_round_end
World_check_round_end(F) ==
    IF F.in_round /\ Cardinality({a \in Avs : F.av[a].alive}) <= 1
    THEN [F EXCEPT !.in_round = FALSE]
    ELSE F

\* Game.kill with Avatar.die: the body that killed is F.bodies[k], k = 0 for None
World_kill(F, a, k, cause) ==
    LET F1 == Avatar_add_point([F EXCEPT !.av[a].alive = FALSE], a)
        F2 == PrintManager_stop(F1, a)
    IN [F2 EXCEPT !.av[a].ev = cause,
                  !.av[a].killer = IF k = 0 THEN <<>> ELSE <<F.bodies[k].data, F.bodies[k].num>>]

\* the body of Game.update's loop for avatar a: mv is the player's move, tg
\* whether PrintManager.test finds its distance used up
Game_update_avatar(F, a, mv, tg) ==
    IF ~F.av[a].alive THEN F
    ELSE
    LET F1 == Avatar_update(F, a, mv)
        F2 == [F1 EXCEPT !.av[a].pre = <<F1.av[a].x, F1.av[a].y>>, !.av[a].ev = "moved",
                         !.av[a].killer = <<>>, !.av[a].seen = Len(F1.bodies),
                         !.av[a].shield = F1.av[a].invincible]
        border == get_bound_intersect(F2, head(F2, a), IF F2.borderless THEN 0 ELSE F2.av[a].radius)
        k  == World_get_body(F2, head(F2, a))
        F3 == IF border # <<>>
              THEN IF F2.borderless
                   THEN LET position == get_opposite(F2, border[1], border[2])
                        IN [Avatar_set_position(F2, a, position[1], position[2])
                                EXCEPT !.av[a].ev = "wrapped"]
                   ELSE World_kill(F2, a, 0, "wall")
              ELSE IF ~F2.av[a].invincible /\ k # 0
                   THEN World_kill(F2, a, k, "body")
                   ELSE F2
    IN IF F3.av[a].alive /\ F3.av[a].pm_active /\ tg
       THEN [Avatar_set_printing(F3, a, ~F3.av[a].printing) EXCEPT !.toggles = @ + 1]
       ELSE F3

RECURSIVE Game_update_from(_, _, _, _)
Game_update_from(F, a, mvs, tgs) ==
    IF a > NumAvatars THEN F
    ELSE Game_update_from(Game_update_avatar(F, a, mvs[a], a \in tgs), a + 1, mvs, tgs)

\* Game.update
Game_update(F, mvs, tgs) ==
    LET F1 == Game_update_from(F, 1, mvs, tgs)
    IN IF \E a \in Avs : F.av[a].alive /\ ~F1.av[a].alive
       THEN World_check_round_end(F1)
       ELSE F1

\* BaseGame.new_round with Game.on_round_new
Field_new_round(F, spawn) ==
    [F EXCEPT !.started = TRUE, !.in_round = TRUE, !.borderless = FALSE,
              !.active = FALSE, !.bodies = <<>>,
              !.av = [a \in Avs |->
                        [RoundAvatar EXCEPT !.x = spawn[a][1], !.y = spawn[a][2],
                                            !.pre = <<spawn[a][1], spawn[a][2]>>,
                                            !.angle = spawn[a][3]]]]

FieldCommit(F) ==
    /\ field' = F
    /\ UNCHANGED <<roomvars, repository, wire, inbox, bonusplay, config, world, lobby>>

\* BaseGame.new_round
NewRound(spawn) ==
    /\ ~field.in_round /\ ~field.started
    /\ FieldCommit(Field_new_round(field, spawn))

\* BaseGame.start when the warm-up is over: Game.on_start
StartLoop ==
    /\ field.in_round /\ ~field.looping
    /\ FieldCommit([field EXCEPT !.looping = TRUE, !.active = TRUE])

\* the callbacks Game.on_start scheduled: PrintManager.start of every avatar
RECURSIVE start_printing(_, _)
start_printing(F, a) ==
    IF a > NumAvatars THEN F ELSE start_printing(PrintManager_start(F, a), a + 1)

StartPrinting ==
    /\ field.looping /\ \E a \in Avs : ~field.av[a].pm_active /\ field.av[a].alive
    /\ FieldCommit(start_printing(field, 1))

\* a frame of BaseGame._run_loop
Frame(mvs, tgs) ==
    /\ field.looping /\ field.ticks < MaxFieldTicks
    /\ \A a \in Avs : ~field.av[a].alive => mvs[a] = 0
    /\ \A a \in tgs : field.av[a].alive /\ field.av[a].pm_active
    /\ field.toggles + Cardinality(tgs) <= MaxToggles
    /\ FieldCommit([Game_update(field, mvs, tgs) EXCEPT !.ticks = @ + 1])

\* a game bonus sets or lifts the borderless mode: BaseGame.set_borderless
SetBorderless(b) ==
    /\ field.looping /\ field.borderless # b /\ field.switches < MaxSwitches
    /\ FieldCommit([field EXCEPT !.borderless = b, !.switches = @ + 1])

\* a bonus sets or lifts an avatar's invincibility: BaseAvatar.set_invincible
SetInvincible(a, v) ==
    /\ field.looping /\ field.av[a].alive /\ field.av[a].invincible # v
    /\ field.switches < MaxSwitches
    /\ FieldCommit([field EXCEPT !.av[a].invincible = v, !.switches = @ + 1])

FieldNext ==
    \/ \E spawn \in Spawns : NewRound(spawn)
    \/ StartLoop
    \/ StartPrinting
    \/ \E mvs \in [Avs -> Moves], tgs \in SUBSET Avs : Frame(mvs, tgs)
    \/ \E b \in BOOLEAN : SetBorderless(b)
    \/ \E a \in Avs, v \in BOOLEAN : SetInvincible(a, v)

FieldSpec == Init /\ [][FieldNext]_vars

\* ==== bonuses: manager, stacks, expiry timers =========================================

\* every bonus type of the server
AllKinds ==
    {"BonusSelfSmall", "BonusSelfSlow", "BonusSelfFast", "BonusSelfMaster",
     "BonusEnemySlow", "BonusEnemyFast", "BonusEnemyBig", "BonusEnemyInverse",
     "BonusEnemyStraightAngle", "BonusAllColor", "BonusGameBorderless", "BonusGameClear"}

\* the bonus types of room.config.get_bonuses(): the room's master has left
\* these enabled
Kinds == {"BonusSelfFast", "BonusEnemyBig", "BonusAllColor", "BonusGameBorderless"}

\* the colours BonusAllColor._get_random_color draws from
Colors == {<<"bonus", 1>>, <<"bonus", 2>>}

\* Bonus.affect of the kind's base class
affect(kind) ==
    IF kind \in {"BonusSelfSmall", "BonusSelfSlow", "BonusSelfFast", "BonusSelfMaster"} THEN "self"
    ELSE IF kind = "BonusAllColor" THEN "all"
    ELSE IF kind \in {"BonusGameBorderless", "BonusGameClear"} THEN "game"
    ELSE "enemy"

\* Bonus.duration of the kind, in milliseconds
duration(kind) ==
    CASE kind \in {"BonusSelfSmall", "BonusEnemyBig"} -> 7500
      [] kind \in {"BonusSelfSlow", "BonusSelfFast"} -> 4000
      [] kind = "BonusSelfMaster" -> 2000
      [] kind \in {"BonusEnemySlow", "BonusEnemyFast"} -> 6000
      [] kind \in {"BonusEnemyInverse", "BonusEnemyStraightAngle"} -> 5000
      [] kind \in {"BonusAllColor", "BonusGameBorderless"} -> 8000
      [] kind = "BonusGameClear" -> 0

\* get_effects of the bonus
get_effects(b) ==
    CASE b.kind = "BonusSelfSmall" -> << <<"radius", -1>> >>
      [] b.kind = "BonusSelfSlow" -> << <<"velocity", -(DEFAULT_VELOCITY \div 2)>> >>
      [] b.kind = "BonusSelfFast" -> << <<"velocity", DEFAULT_VELOCITY \div 2>> >>
      [] b.kind = "BonusSelfMaster" -> << <<"invincible", 1>> >>
      [] b.kind = "BonusEnemySlow" -> << <<"velocity", -((3 * DEFAULT_VELOCITY) \div 4)>> >>
      [] b.kind = "BonusEnemyFast" -> << <<"velocity", (3 * DEFAULT_VELOCITY) \div 4>> >>
      [] b.kind = "BonusEnemyBig" -> << <<"radius", 1>> >>
      [] b.kind = "BonusEnemyInverse" -> << <<"inverse", 1>> >>
      [] b.kind = "BonusEnemyStraightAngle" ->
            << <<"directionInLoop", "False">>, <<"angularVelocityBase", "pi/2">> >>
      [] b.kind = "BonusAllColor" -> << <<"color", b.color>> >>
      [] b.kind = "BonusGameBorderless" -> << <<"borderless", 1>> >>
      [] b.kind = "BonusGameClear" -> <<>>

\* the properties the effects name
effect_names(effects) == {effects[i][1] : i \in 1..Len(effects)}

\* BaseBonusStack.append over one bonus's effects: the values add up
RECURSIVE effect_sum(_, _)
effect_sum(effects, prop) ==
    IF effects = <<>> THEN 0
    ELSE (IF Head(effects)[1] = prop THEN Head(effects)[2] ELSE 0)
         + effect_sum(Tail(effects), prop)

\* the loop of BaseBonusStack.resolve over the active bonuses, for a property
\* whose values add up: the sum that is added to the default
RECURSIVE stack_sum(_, _)
stack_sum(bonuses, prop) ==
    IF bonuses = <<>> THEN 0
    ELSE effect_sum(get_effects(Head(bonuses)), prop) + stack_sum(Tail(bonuses), prop)

\* BonusStack.append over one bonus's effects for a property that is replaced
RECURSIVE effect_last(_, _, _)
effect_last(effects, prop, value) ==
    IF effects = <<>> THEN value
    ELSE effect_last(Tail(effects), prop,
                     IF Head(effects)[1] = prop THEN Head(effects)[2] ELSE value)

\* the loop of BaseBonusStack.resolve for a property that is replaced
RECURSIVE stack_last(_, _, _)
stack_last(bonuses, prop, value) ==
    IF bonuses = <<>> THEN value
    ELSE stack_last(Tail(bonuses), prop, effect_last(get_effects(Head(bonuses)), prop, value))

\* the keys of the properties dict of BaseBonusStack.resolve: removed is <<>> for
\* None or the bonus in a tuple
resolved(bonuses, removed) ==
    UNION {effect_names(get_effects(removed[i])) : i \in 1..Len(removed)}
    \cup UNION {effect_names(get_effects(bonuses[i])) : i \in 1..Len(bonuses)}

\* BaseAvatar.set_velocity, called by BonusStack.apply, with update_velocities
set_velocity(A, velocity) ==
    LET v == Max(velocity, DEFAULT_VELOCITY \div 2)
    IN IF A.velocity # v
       THEN [A EXCEPT !.velocity = v,
                      !.angular_velocity_base = IF A.direction_in_loop THEN v ELSE @]
       ELSE A

\* BaseAvatar.set_radius of DEFAULT_RADIUS * 2 ** value
set_radius(A, value) == [A EXCEPT !.radius_log2 = Max(value, -3)]

\* BaseBonusStack.resolve that recomputes the properties of the active bonuses only
BonusStack_resolve_active(A, a, removed) ==
    LET props == resolved(A.stack, <<>>)
        A1 == IF "radius" \in props THEN set_radius(A, stack_sum(A.stack, "radius")) ELSE A
        A2 == IF "velocity" \in props
              THEN set_velocity(A1, DEFAULT_VELOCITY + stack_sum(A.stack, "velocity"))
              ELSE A1
    IN [A2 EXCEPT
          !.inverse = IF "inverse" \in props
                      THEN stack_sum(A.stack, "inverse") % 2 # 0 ELSE @,
          !.invincible = IF "invincible" \in props
                         THEN stack_sum(A.stack, "invincible") # 0 ELSE @,
          !.color = IF "color" \in props
                    THEN stack_last(A.stack, "color", PlayerColor(a)) ELSE @,
          !.directionInLoop = IF "directionInLoop" \in props
                              THEN stack_last(A.stack, "directionInLoop", "0") ELSE @,
          !.angularVelocityBase = IF "angularVelocityBase" \in props
                                  THEN stack_last(A.stack, "angularVelocityBase", "0") ELSE @]

\* BaseBonusStack.resolve on an avatar's BonusStack with BonusStack.apply and
\* get_default_property
BonusStack_resolve(A, a, removed) ==
    LET props == resolved(A.stack, removed)
        A1 == IF "radius" \in props THEN set_radius(A, stack_sum(A.stack, "radius")) ELSE A
        A2 == IF "velocity" \in props
              THEN set_velocity(A1, DEFAULT_VELOCITY + stack_sum(A.stack, "velocity"))
              ELSE A1
    IN [A2 EXCEPT
          !.inverse = IF "inverse" \in props
                      THEN stack_sum(A.stack, "inverse") % 2 # 0 ELSE @,
          !.invincible = IF "invincible" \in props
                         THEN stack_sum(A.stack, "invincible") # 0 ELSE @,
          !.color = IF "color" \in props
                    THEN stack_last(A.stack, "color", PlayerColor(a)) ELSE @,
          !.directionInLoop = IF "directionInLoop" \in props
                              THEN stack_last(A.stack, "directionInLoop", "0") ELSE @,
          !.angularVelocityBase = IF "angularVelocityBase" \in props
                                  THEN stack_last(A.stack, "angularVelocityBase", "0") ELSE @]

\* Collection.exists, Collection.remove on a list of bonuses, by id
has_id(bonuses, b) == \E i \in 1..Len(bonuses) : bonuses[i].id = b.id

without_id(bonuses, b) ==
    LET i == MinOf({j \in 1..Len(bonuses) : bonuses[j].id = b.id})
    IN SubSeq(bonuses, 1, i - 1) \o SubSeq(bonuses, i + 1, Len(bonuses))

\* the 'change' event of BonusStack.add / remove
change(P, a, method, b) ==
    [P EXCEPT !.events = @ \cup {[avatar |-> a, method |-> method, bonus |-> b.uid]}]

\* BonusStack.add
BonusStack_add(P, a, b) ==
    LET A  == P.av[a]
        P1 == IF has_id(A.stack, b) THEN P
              ELSE [P EXCEPT !.av[a] =
                        BonusStack_resolve([A EXCEPT !.stack = Append(@, b)], a, <<>>)]
    IN change(P1, a, "add", b)

\* BonusStack.remove
BonusStack_remove(P, a, b) ==
    LET A  == P.av[a]
        P1 == IF has_id(A.stack, b)
              THEN [P EXCEPT !.av[a] =
                        BonusStack_resolve([A EXCEPT !.stack = without_id(@, b)], a, <<b>>)]
              ELSE P
    IN change(P1, a, "remove", b)

\* GameBonusStack: BaseBonusStack.add / remove with GameBonusStack.apply
GameBonusStack_resolve(P, removed) ==
    IF "borderless" \in resolved(P.gstack, removed)
    THEN [P EXCEPT !.borderless = stack_sum(P.gstack, "borderless") # 0]
    ELSE P

GameBonusStack_add(P, b) ==
    IF has_id(P.gstack, b) THEN P
    ELSE GameBonusStack_resolve([P EXCEPT !.gstack = Append(@, b)], <<>>)

GameBonusStack_remove(P, b) ==
    IF has_id(P.gstack, b)
    THEN GameBonusStack_resolve([P EXCEPT !.gstack = without_id(@, b)], <<b>>)
    ELSE P

\* get_target of the bonus's class: the avatars it goes to
get_target(P, a, b) ==
    CASE affect(b.kind) = "self"  -> IF P.av[a].alive THEN {a} ELSE {}
      [] affect(b.kind) = "enemy" -> {o \in 1..NumAvatars : P.av[o].alive /\ o # a}
      [] affect(b.kind) = "all"   -> {o \in 1..NumAvatars : P.av[o].alive}
      [] affect(b.kind) = "game"  -> {}

\* on() / off() of BonusSelf, BonusEnemy and BonusAll: the stacks of the targets
\* in the order of game.avatars
RECURSIVE over_targets(_, _, _, _, _)
over_targets(P, a, target, b, adding) ==
    IF a > NumAvatars THEN P
    ELSE over_targets(IF a \in target
                      THEN IF adding THEN BonusStack_add(P, a, b) ELSE BonusStack_remove(P, a, b)
                      ELSE P,
                      a + 1, target, b, adding)

\* Bonus.on
Bonus_on(P, target, b) ==
    IF b.kind = "BonusGameClear" THEN P
    ELSE IF affect(b.kind) = "game" THEN GameBonusStack_add(P, b)
    ELSE over_targets(P, 1, target, b, TRUE)

\* Bonus.off, the callback of the expiry timer
Bonus_off(P, target, b) ==
    IF affect(b.kind) = "game" THEN GameBonusStack_remove(P, b)
    ELSE over_targets(P, 1, target, b, FALSE)

\* Bonus.apply_to: the expiry timer is held by the bonus only
apply_to(P, a, b) ==
    LET target == get_target(P, a, b)
        P1 == IF duration(b.kind) # 0
              THEN [P EXCEPT !.timers = Append(@, [bonus |-> b, target |-> target,
                                                   left |-> duration(b.kind),
                                                   clears |-> P.clears])]
              ELSE P
    IN Bonus_on(P1, target, b)

\* BaseBonusManager.clear with BonusManager.clear; the bonuses on the map have no
\* timer to cancel
BonusManager_clear(P) ==
    [P EXCEPT !.map = <<>>, !.counter = 0, !.clears = @ + 1]

\* BonusManager.start
BonusManager_start(P) == [BonusManager_clear(P) EXCEPT !.pop_for = <<0>>]

\* BonusManager.stop
BonusManager_stop(P) == BonusManager_clear([P EXCEPT !.pop_for = <<>>])

\* BonusManager.pop_bonus and BonusManager.add: Collection._set_id numbers the bonus
Bonus_pop(P, kind, color) ==
    LET P1 == [P EXCEPT !.pop_for = <<0>>, !.pops = @ + 1]
    IN IF Len(P.map) < bonus_cap
       THEN [P1 EXCEPT !.counter = @ + 1, !.made = @ + 1,
                       !.map = Append(@, [id |-> P.counter + 1, uid |-> P.made + 1,
                                          kind |-> kind, color |-> color])]
       ELSE P1

\* BonusManager.test_catch when the avatar touches bonus map[i]
test_catch(P, a, i) ==
    LET b == P.map[i]
    IN apply_to([P EXCEPT !.map = without_id(@, b)], a, b)

\* BaseGame.end_round reached from Game.check_round_end
Bonus_check_round_end(P) ==
    IF P.in_round /\ Cardinality({a \in 1..NumAvatars : P.av[a].alive}) <= 1
    THEN [P EXCEPT !.in_round = FALSE, !.stop_in = <<warmdown_time>>]
    ELSE P

\* Game.kill with BaseAvatar.die: the bonus stack is cleared, nothing is resolved
Bonus_kill(P, a) ==
    Bonus_check_round_end([P EXCEPT !.av[a].alive = FALSE, !.av[a].stack = <<>>])

\* BaseGame.new_round with on_round_new of BaseGame and Game
Bonus_new_round(P) ==
    [BonusManager_clear(P) EXCEPT
        !.started = TRUE, !.in_round = TRUE, !.borderless = FALSE,
        !.av = [a \in 1..NumAvatars |->
                  [StackAvatar(a) EXCEPT !.directionInLoop = P.av[a].directionInLoop,
                                         !.angularVelocityBase = P.av[a].angularVelocityBase]],
        !.gstack = <<>>,
        !.start_in = <<warmup_time>>, !.rounds = @ + 1]

\* Game.end
Bonus_end(P) == [P EXCEPT !.started = FALSE]

\* BaseGame.stop with Game.on_stop; won is what is_won finds
Bonus_stop(P, won) ==
    LET P1 == BonusManager_stop([P EXCEPT !.looping = FALSE, !.stop_in = <<>>])
    IN IF won THEN Bonus_end(P1) ELSE Bonus_new_round(P1)

\* BaseGame.start with on_start
Bonus_start(P) ==
    BonusManager_start([P EXCEPT !.looping = TRUE, !.start_in = <<>>])

\* the milliseconds left to the pending timers other than the popping timer
lefts(P) ==
    {P.timers[i].left : i \in 1..Len(P.timers)}
    \cup {P.stop_in[i] : i \in 1..Len(P.stop_in)}
    \cup {P.start_in[i] : i \in 1..Len(P.start_in)}

\* the event loop runs a timer when it is due and no other timer is due earlier
runs(P, left) == left <= 0 /\ \A l \in lefts(P) : left <= l

\* time goes on by ms for every pending timer
elapse(P, ms) ==
    [P EXCEPT !.timers = [i \in 1..Len(@) |-> [@[i] EXCEPT !.left = @ - ms]],
              !.stop_in = [i \in 1..Len(@) |-> @[i] - ms],
              !.start_in = [i \in 1..Len(@) |-> @[i] - ms],
              !.pop_for = [i \in 1..Len(@) |-> MinOf({@[i] + ms, 2 * bonus_poping_time})]]

\* the state a handler starts from: events and offs hold what the handler that
\* is running has emitted and called
heard(P) == [P EXCEPT !.events = {}, !.offs = {}]

BonusCommit(P) ==
    /\ bonusplay' = P
    /\ UNCHANGED <<roomvars, repository, wire, inbox, field, config, world, lobby>>

\* the popping timer fires: its delay is bonus_poping_time * (1 + random())
PopTimer(kind, color) ==
    /\ bonusplay.pop_for # <<>> /\ bonusplay.pops < MaxPops
    /\ bonusplay.pop_for[1] >= bonus_poping_time
    /\ (kind = "BonusAllColor") = (color \in Colors)
    /\ BonusCommit(Bonus_pop(heard(bonusplay), kind, color))

\* a frame in which avatar a touches the bonus map[i]
Catch(a, i) ==
    /\ bonusplay.looping /\ bonusplay.av[a].alive /\ i <= Len(bonusplay.map)
    /\ BonusCommit(test_catch(heard(bonusplay), a, i))

\* a frame in which avatar a is killed
Killed(a) ==
    /\ bonusplay.looping /\ bonusplay.av[a].alive
    /\ BonusCommit(Bonus_kill(heard(bonusplay), a))

\* the expiry timer of an applied bonus fires
Expire(i) ==
    /\ i <= Len(bonusplay.timers) /\ runs(bonusplay, bonusplay.timers[i].left)
    /\ LET t == bonusplay.timers[i]
           P == [heard(bonusplay) EXCEPT
                    !.timers = SubSeq(@, 1, i - 1) \o SubSeq(@, i + 1, Len(@)),
                    !.offs = {[bonus |-> t.bonus.uid, applied |-> t.clears,
                               run |-> bonusplay.clears]}]
       IN BonusCommit(Bonus_off(P, t.target, t.bonus))

\* the warm-down timer fires
WarmdownOver(won) ==
    /\ bonusplay.stop_in # <<>> /\ runs(bonusplay, bonusplay.stop_in[1])
    /\ won \/ bonusplay.rounds < MaxBonusRounds
    /\ BonusCommit(Bonus_stop(heard(bonusplay), won))

\* the warm-up timer fires
WarmupOver ==
    /\ bonusplay.start_in # <<>> /\ runs(bonusplay, bonusplay.start_in[1])
    /\ BonusCommit(Bonus_start(heard(bonusplay)))

\* time goes on while no timer is due; the popping timer fires before twice
\* bonus_poping_time have gone
Elapse ==
    /\ lefts(bonusplay) # {} \/ (bonusplay.pop_for # <<>> /\ bonusplay.pops < MaxPops)
    /\ \A l \in lefts(bonusplay) : l > 0
    /\ ~(bonusplay.pop_for # <<>> /\ bonusplay.pops < MaxPops
         /\ bonusplay.pop_for[1] + Quantum >= 2 * bonus_poping_time)
    /\ BonusCommit(elapse(heard(bonusplay), Quantum))

BonusNext ==
    \/ \E kind \in Kinds, color \in Colors \cup {<<>>} : PopTimer(kind, color)
    \/ \E a \in 1..NumAvatars, i \in 1..MaxPops : Catch(a, i)
    \/ \E a \in 1..NumAvatars : Killed(a)
    \/ \E i \in 1..MaxPops : Expire(i)
    \/ \E won \in BOOLEAN : WarmdownOver(won)
    \/ WarmupOver
    \/ Elapse

BonusSpec == Init /\ [][BonusNext]_vars

\* ---- the stacks alone: add and remove applied to bonuses of every type ----

\* one bonus of every type, BonusAllColor in both colours, as the manager
\* numbers them
Samples ==
    << <<"BonusSelfSmall", <<>> >>, <<"BonusSelfSlow", <<>> >>, <<"BonusSelfFast", <<>> >>,
       <<"BonusSelfMaster", <<>> >>, <<"BonusEnemySlow", <<>> >>, <<"BonusEnemyFast", <<>> >>,
       <<"BonusEnemyBig", <<>> >>, <<"BonusEnemyInverse", <<>> >>,
       <<"BonusEnemyStraightAngle", <<>> >>, <<"BonusAllColor", <<"bonus", 1>> >>,
       <<"BonusAllColor", <<"bonus", 2>> >>, <<"BonusGameBorderless", <<>> >>,
       <<"BonusGameClear", <<>> >> >>

Bonuses ==
    {[id |-> i, uid |-> i, kind |-> Samples[i][1], color |-> Samples[i][2]] :
        i \in 1..Len(Samples)}

\* the bonuses held by the stacks
RECURSIVE held_from(_, _)
held_from(P, a) ==
    IF a > NumAvatars THEN Len(P.gstack) ELSE Len(P.av[a].stack) + held_from(P, a + 1)

held(P) == held_from(P, 1)

\* BonusStack.add(bonus) on the stack of avatar a
StackAdd(a, b) ==
    /\ affect(b.kind) # "game" /\ held(bonusplay) < MaxHeld
    /\ BonusCommit(BonusStack_add(heard(bonusplay), a, b))

\* BonusStack.remove(bonus) on the stack of avatar a
StackRemove(a, b) ==
    /\ affect(b.kind) # "game"
    /\ BonusCommit(BonusStack_remove(heard(bonusplay), a, b))

\* GameBonusStack.add(bonus)
GameStackAdd(b) ==
    /\ affect(b.kind) = "game" /\ held(bonusplay) < MaxHeld
    /\ BonusCommit(GameBonusStack_add(heard(bonusplay), b))

\* GameBonusStack.remove(bonus)
GameStackRemove(b) ==
    /\ affect(b.kind) = "game"
    /\ BonusCommit(GameBonusStack_remove(heard(bonusplay), b))

StackNext ==
    \/ \E a \in Avs, b \in Bonuses : StackAdd(a, b)
    \/ \E a \in Avs, b \in Bonuses : StackRemove(a, b)
    \/ \E b \in Bonuses : GameStackAdd(b)
    \/ \E b \in Bonuses : GameStackRemove(b)

StackSpec == Init /\ [][StackNext]_vars

\* ==== room configuration: open, password, joining ====================================

\* what generate_password can return: password_length digits
Passwords == [1..password_length -> 1..MaxDigit]

\* data.get('password') of a room:join: missing, a generated password, or
\* something that is none
Supplied == {<<>>, <<1>>} \cup Passwords

\* RoomConfig.set_open; generated is what generate_password returns
RoomConfig_set_open(C, open_state, generated) ==
    IF C.open # open_state
    THEN [C EXCEPT !.open = open_state,
                   !.password = IF open_state THEN <<>> ELSE generated,
                   !.generated = IF open_state THEN @ ELSE @ + 1]
    ELSE C

\* variant of allow that lets in whoever supplies some password
RoomConfig_allow_some(C, password) == C.open \/ password # <<>>

\* BaseRoomConfig.allow
RoomConfig_allow(C, password) == C.open \/ C.password = password

\* RoomsController._on_join_room, for the name of the room, with
\* RoomController.attach
RoomsController_on_join_room(C, c, password) ==
    IF ~RoomConfig_allow(C, password)
    THEN [C EXCEPT !.last = <<c, password, FALSE>>]
    ELSE IF c \notin C.clients
    THEN [C EXCEPT !.clients = @ \cup {c}, !.last = <<c, password, TRUE>>]
    ELSE [C EXCEPT !.last = <<c, password, FALSE>>]

ConfigCommit(C) ==
    /\ config' = C
    /\ UNCHANGED <<roomvars, repository, wire, inbox, field, bonusplay, world, lobby>>

\* room:join
ConfigJoin(c, password) ==
    /\ password \in Supplied
    /\ ConfigCommit(RoomsController_on_join_room(config, c, password))

\* room:leave -> RoomController.detach
ConfigLeave(c) ==
    /\ c \in config.clients
    /\ ConfigCommit([config EXCEPT !.clients = @ \ {c}])

\* room:config:open from the room master, one of the sessions in the room ->
\* RoomController._on_config_open
ConfigSetOpen(open_state, generated) ==
    /\ config.clients # {}
    /\ open_state \/ config.generated < MaxCloses
    /\ ConfigCommit(RoomConfig_set_open(config, open_state, generated))

ConfigNext ==
    \/ \E c \in Clients, password \in Supplied : ConfigJoin(c, password)
    \/ \E c \in Clients : ConfigLeave(c)
    \/ \E open_state \in BOOLEAN, generated \in Passwords : ConfigSetOpen(open_state, generated)

ConfigSpec == Init /\ [][ConfigNext]_vars

\* ==== the World class: islands and the bodies they list =============================

\* where bodies are put, on either axis: across the wall, across the boundary of
\* two islands, at the far wall
Places == {-2, 40, 85}

\* Body.__init__: id is <<>> for None
Body(x, y, radius) == [x |-> x, y |-> y, radius |-> radius, id |-> <<>>, islands |-> <<>>]

\* Collection.remove / Collection.exists on Island.bodies: the place of the first
\* body with the id of body u, 0 when there is none
Island_index(W, isl, u) ==
    LET ks == {k \in 1..Len(W.isl[isl]) : W.body[W.isl[isl][k]].id = W.body[u].id}
    IN IF ks = {} THEN 0 ELSE MinOf(ks)

\* Island.add_body that lists the body without telling the body
Island_add_body_one_way(W, isl, u) ==
    IF Island_index(W, isl, u) # 0 THEN W
    ELSE [W EXCEPT !.isl[isl] = Append(@, u)]

\* Island.add_body
Island_add_body(W, isl, u) ==
    IF Island_index(W, isl, u) # 0 THEN W
    ELSE [W EXCEPT !.isl[isl] = Append(@, u),
                   !.body[u].islands = IF isl \in Range(@) THEN @ ELSE Append(@, isl)]

\* Island.remove_body
Island_remove_body(W, isl, u) ==
    LET k  == Island_index(W, isl, u)
        W1 == IF k = 0 THEN W
              ELSE [W EXCEPT !.isl[isl] = SubSeq(@, 1, k - 1) \o SubSeq(@, k + 1, Len(@))]
    IN [W1 EXCEPT !.body[u].islands = Without(@, isl)]

\* World._add_body_by_point for the k-th corner
add_body_by_point(W, u, k) ==
    LET island == get_island_by_point(W, corners(W.body[u])[k][1], corners(W.body[u])[k][2])
    IN IF island = <<>> THEN W ELSE Island_add_body(W, island, u)

\* World.add_body of the body made as number u
add_body(W, u) ==
    IF ~W.active THEN W
    ELSE LET W1 == [W EXCEPT !.body[u].id = W.body_count, !.body_count = @ + 1]
         IN add_body_by_point(add_body_by_point(add_body_by_point(
                add_body_by_point(W1, u, 1), u, 2), u, 3), u, 4)

\* the loop of World.remove_body over the copy of body.islands
RECURSIVE remove_from(_, _, _)
remove_from(W, u, isls) ==
    IF isls = <<>> THEN W
    ELSE remove_from(Island_remove_body(W, Head(isls), u), u, Tail(isls))

\* World.remove_body
remove_body(W, u) == IF ~W.active THEN W ELSE remove_from(W, u, W.body[u].islands)

\* World.clear with Island.clear
World_clear(W) ==
    [W EXCEPT !.active = FALSE, !.body_count = 0, !.isl = [i \in DOMAIN @ |-> <<>>]]

\* World.activate
World_activate(W) == [W EXCEPT !.active = TRUE]

WorldCommit(W) ==
    /\ world' = W
    /\ UNCHANGED <<roomvars, repository, wire, inbox, field, bonusplay, config, lobby>>

\* a body is made at (x, y) and handed to World.add_body: Game._on_point with an
\* avatar's point, BonusManager.add with a bonus's body
AddBody(x, y) ==
    /\ Len(world.body) < MaxBodies
    /\ WorldCommit(add_body([world EXCEPT !.body = Append(@, Body(x, y, Radius))],
                            Len(world.body) + 1))

\* World.remove_body of a body the world holds: BonusManager.remove with the
\* body of a bonus of its collection
RemoveBody(u) ==
    /\ \E isl \in DOMAIN world.isl : u \in Range(world.isl[isl])
    /\ WorldCommit([remove_body(world, u) EXCEPT !.removed = @ \cup {u}])

\* World.clear: a new round, the end of the game, BonusGameClear
ClearWorld ==
    /\ world.clears < MaxClears
    /\ WorldCommit([World_clear(world) EXCEPT !.clears = @ + 1])

\* World.activate: Game.on_start, Game.clear_trails, BonusManager.start
ActivateWorld ==
    /\ ~world.active
    /\ WorldCommit(World_activate(world))

WorldNext ==
    \/ \E x \in Places, y \in Places : AddBody(x, y)
    \/ \E u \in 1..MaxBodies : RemoveBody(u)
    \/ ClearWorld
    \/ ActivateWorld

WorldSpec == Init /\ [][WorldNext]_vars

\* ==== several rooms: the sessions' listeners and the rooms' rosters ==================
\* Every room is open and no game ends. A Player object is named by its place
\* in lobby.player; Collection looks an element up by its id.

\* Collection.get_by_id / remove / exists on a list of Player objects: the place
\* of the first one with this id, 0 when there is none
player_index(L, items, id) ==
    LET ks == {k \in 1..Len(items) : L.player[items[k]].id = id}
    IN IF ks = {} THEN 0 ELSE MinOf(ks)

\* Collection.remove of the element at place k
delete_index(items, k) == SubSeq(items, 1, k - 1) \o SubSeq(items, k + 1, Len(items))

\* BaseRoom.is_ready
Room_is_ready(L, r) ==
    /\ ~L.game[r]
    /\ Len(L.roster[r]) >= 1
    /\ \A k \in 1..Len(L.roster[r]) : L.player[L.roster[r][k]].ready

\* RoomController._on_player_leave: room.new_game when the room is ready
Lobby_on_player_leave(L, r) == IF Room_is_ready(L, r) THEN [L EXCEPT !.game[r] = TRUE] ELSE L

\* RoomController.remove_player of the controller of room r, with
\* Room.remove_player
Lobby_remove_player(L, r, u) ==
    LET k == player_index(L, L.roster[r], L.player[u].id)
    IN IF k = 0 THEN L
       ELSE LET L1 == Lobby_on_player_leave([L EXCEPT !.roster[r] = delete_index(@, k)], r)
                c  == L.player[u].client
                h  == player_index(L1, L1.held[c], L.player[u].id)
            IN IF h = 0 THEN L1 ELSE [L1 EXCEPT !.held[c] = delete_index(@, h)]

\* RoomController._on_players_clear of the controller of room r: the loop over
\* the copy of client.players
RECURSIVE Lobby_on_players_clear(_, _, _)
Lobby_on_players_clear(L, r, us) ==
    IF us = <<>> THEN L
    ELSE Lobby_on_players_clear(Lobby_remove_player(L, r, Head(us)), r, Tail(us))

\* the 'players:clear' listeners of session c, in the order of registration
RECURSIVE emit_players_clear_to(_, _, _)
emit_players_clear_to(L, c, rs) ==
    IF rs = <<>> THEN L
    ELSE emit_players_clear_to(Lobby_on_players_clear(L, Head(rs), L.held[c]), c, Tail(rs))

\* SocketClient.clear_players
Lobby_clear_players(L, c) ==
    [emit_players_clear_to(L, c, L.listeners[c]) EXCEPT !.held[c] = <<>>]

\* RoomController.attach with _attach_events and _on_client_add
Lobby_attach(L, r, c) ==
    IF c \in Range(L.attached[r]) THEN L
    ELSE Lobby_clear_players([L EXCEPT !.attached[r] = Append(@, c),
                                       !.listeners[c] = Append(@, r)], c)

\* RoomController.detach
Lobby_detach(L, r, c) ==
    IF c \in Range(L.attached[r])
    THEN Lobby_clear_players([L EXCEPT !.attached[r] = Without(@, c)], c)
    ELSE L

\* the 'room:leave' and 'close' listeners of session c: RoomController._on_leave
RECURSIVE emit_leave_to(_, _, _)
emit_leave_to(L, c, rs) ==
    IF rs = <<>> THEN L ELSE emit_leave_to(Lobby_detach(L, Head(rs), c), c, Tail(rs))

\* RoomController._on_player_add of the controller of room r
Lobby_on_player_add(L, r, c, name) ==
    IF L.game[r] THEN L
    ELSE IF \E k \in 1..Len(L.roster[r]) : L.player[L.roster[r][k]].name = name THEN L
    ELSE IF c \notin Range(L.attached[r]) THEN L
    ELSE LET u  == Len(L.player) + 1
             id == L.counter[r] + 1
             L1 == [L EXCEPT !.player = Append(@, [client |-> c, id |-> id, name |-> name,
                                                   ready |-> FALSE]),
                             !.counter[r] = id,
                             !.roster[r] = Append(@, u)]
         IN IF player_index(L1, L1.held[c], id) # 0 THEN L1
            ELSE [L1 EXCEPT !.held[c] = Append(@, u)]

RECURSIVE emit_player_add_to(_, _, _, _)
emit_player_add_to(L, c, name, rs) ==
    IF rs = <<>> THEN L
    ELSE emit_player_add_to(Lobby_on_player_add(L, Head(rs), c, name), c, name, Tail(rs))

\* RoomController._on_player_remove of the controller of room r
Lobby_on_player_remove(L, r, c, id) ==
    LET h == player_index(L, L.held[c], id)
    IN IF h = 0 THEN L ELSE Lobby_remove_player(L, r, L.held[c][h])

RECURSIVE emit_player_remove_to(_, _, _, _)
emit_player_remove_to(L, c, id, rs) ==
    IF rs = <<>> THEN L
    ELSE emit_player_remove_to(Lobby_on_player_remove(L, Head(rs), c, id), c, id, Tail(rs))

\* RoomController._on_ready of the controller of room r, with _launch
Lobby_on_ready(L, r, c, id) ==
    LET h == player_index(L, L.held[c], id)
    IN IF h = 0 THEN L
       ELSE LET L1 == [L EXCEPT !.player[L.held[c][h]].ready = ~@]
            IN IF Room_is_ready(L1, r) THEN [L1 EXCEPT !.game[r] = TRUE] ELSE L1

RECURSIVE emit_room_ready_to(_, _, _, _)
emit_room_ready_to(L, c, id, rs) ==
    IF rs = <<>> THEN L
    ELSE emit_room_ready_to(Lobby_on_ready(L, Head(rs), c, id), c, id, Tail(rs))

LobbyCommit(L) ==
    /\ lobby' = L
    /\ UNCHANGED <<roomvars, repository, wire, inbox, field, bonusplay, config, world>>

\* room:join of session c for room r: RoomsController._on_join_room
LobbyJoin(c, r) ==
    /\ Len(lobby.listeners[c]) < MaxListen
    /\ c \notin Range(lobby.attached[r])
    /\ LobbyCommit([Lobby_attach(lobby, r, c) EXCEPT !.last = <<"room:join", c>>])

\* room:leave of session c
LobbyLeave(c) ==
    /\ lobby.listeners[c] # <<>>
    /\ LobbyCommit([emit_leave_to(lobby, c, lobby.listeners[c])
                        EXCEPT !.last = <<"room:leave", c>>])

\* player:add of session c with a name no player has
LobbyPlayerAdd(c) ==
    /\ lobby.listeners[c] # <<>>
    /\ Len(lobby.player) + Len(lobby.listeners[c]) <= MaxMade
    /\ LobbyCommit([emit_player_add_to(lobby, c, Len(lobby.player) + 1, lobby.listeners[c])
                        EXCEPT !.last = <<"player:add", c>>])

\* player:remove of session c for the player id
LobbyPlayerRemove(c, id) ==
    /\ lobby.listeners[c] # <<>>
    /\ player_index(lobby, lobby.held[c], id) # 0
    /\ LobbyCommit([emit_player_remove_to(lobby, c, id, lobby.listeners[c])
                        EXCEPT !.last = <<"player:remove", c>>])

\* room:ready of session c for the player id
LobbyReady(c, id) ==
    /\ lobby.listeners[c] # <<>>
    /\ player_index(lobby, lobby.held[c], id) # 0
    /\ LobbyCommit([emit_room_ready_to(lobby, c, id, lobby.listeners[c])
                        EXCEPT !.last = <<"room:ready", c>>])

\* players:clear of session c
LobbyPlayersClear(c) ==
    /\ lobby.listeners[c] # <<>>
    /\ lobby.held[c] # <<>>
    /\ LobbyCommit([emit_players_clear_to(lobby, c, lobby.listeners[c])
                        EXCEPT !.last = <<"players:clear", c>>])

LobbyNext ==
    \/ \E c \in Clients, r \in 1..MaxRooms : LobbyJoin(c, r)
    \/ \E c \in Clients : LobbyLeave(c)
    \/ \E c \in Clients : LobbyPlayerAdd(c)
    \/ \E c \in Clients, id \in 1..MaxMade : LobbyPlayerRemove(c, id)
    \/ \E c \in Clients, id \in 1..MaxMade : LobbyReady(c, id)
    \/ \E c \in Clients : LobbyPlayersClear(c)

LobbySpec == Init /\ [][LobbyNext]_vars

\* ==== properties =====================================================================
AliveNow(g)  == {p \in games[g].avatars : avatars[p].alive}
AliveNext(g) == {p \in games'[g].avatars : avatars'[p].alive}

\* p is killed by the frame of this step (a removed avatar is no longer present)
KilledInTick(g, p) ==
    /\ p \in games[g].avatars
    /\ avatars[p].alive /\ ~avatars'[p].alive /\ avatars'[p].present

\* p is removed from game g in this step
Removed(g, p) ==
    /\ p \in games[g].avatars
    /\ avatars[p].present /\ ~avatars'[p].present

\* round:end of g is emitted in this step
RoundEnded(g) == games[g].in_round /\ ~games'[g].in_round

\* the tick loop of g is stopped in this step (BaseGame.stop ran)
Stopped(g) == games[g].frame_task /\ ~games'[g].frame_task

\* what this step credits to p before its round score is resolved
KillCredit(g, p) == IF KilledInTick(g, p) THEN Cardinality(games[g].deaths) ELSE 0
Award(g, p) ==
    IF RoundEnded(g) /\ games'[g].round_winner = p
    THEN Max(Cardinality(games[g].avatars) - 1, 1) ELSE 0

\* ---- C1 ----
\* C1: a step in which a session leaves the room (room:leave or close) while
\* the room has an active game leaves every avatar of that game that belongs to
\* the session dead and not present, and the session in neither the room's nor
\* the game's client set.
C1_Departed ==
    [][\A c \in Clients :
          (room.game # 0 /\ c \in Range(ctl.clients) /\ c \notin Range(ctl'.clients))
              => /\ c \notin games'[room.game].clients
                 /\ \A p \in games[room.game].avatars :
                        avatars[p].client = c
                            => ~avatars'[p].alive /\ ~avatars'[p].present]_vars

\* ---- C2 ----
C2_Once ==
    \A g \in Gids :
        games[g].rounds_end = games[g].rounds_new - (IF games[g].in_round THEN 1 ELSE 0)

C2_Step ==
    \A g \in Gids :
        /\ (games[g].in_round /\ \E p \in Pids : KilledInTick(g, p) \/ Removed(g, p))
               => (RoundEnded(g) <=> Cardinality(AliveNext(g)) <= 1)
        /\ RoundEnded(g) =>
               /\ Cardinality(AliveNext(g)) <= 1
               /\ games'[g].rounds_end = games[g].rounds_end + 1

C3_Credit ==
    [][\A g \in Gids, p \in Pids :
          KilledInTick(g, p) =>
              IF RoundEnded(g)
              THEN /\ avatars'[p].round_score = 0
                   /\ avatars'[p].score = avatars[p].score + avatars[p].round_score
                         + Cardinality(games[g].deaths) + Award(g, p)
              ELSE /\ avatars'[p].round_score =
                         avatars[p].round_score + Cardinality(games[g].deaths)
                   /\ avatars'[p].score = avatars[p].score]_vars

\* two avatars died in the same frame of the first round
C3_Witness ==
    \E g \in Gids :
        /\ Cardinality(games[g].avatars) = 2
        /\ games[g].rounds_end = 1 /\ games[g].round_winner = 0
        /\ games[g].deaths = games[g].avatars
        /\ \A p \in games[g].avatars :
               avatars[p].present /\ ~avatars[p].alive /\ avatars[p].score = 0

\* ---- C4 ----
\* C4 as stated: the round winner is the one avatar alive at round end, and
\* there is no winner when none is alive.
C4_WinnerIsAlive ==
    \A g \in Gids :
        /\ games[g].round_winner # 0 => games[g].alive_at_end = {games[g].round_winner}
        /\ (games[g].rounds_end > 0 /\ ~games[g].in_round /\ games[g].alive_at_end = {})
               => games[g].round_winner = 0

\* C4, amended: at round end the winner is the one avatar alive, or the only
\* avatar of the game; it is awarded max(playerCount - 1, 1); with several
\* avatars and none alive there is no winner, and no other avatar is awarded.
C4_Amended ==
    [][\A g \in Gids :
          RoundEnded(g) =>
              LET avs == games[g].avatars
                  n   == Cardinality(avs)
                  al  == games'[g].alive_at_end
                  w   == games'[g].round_winner
              IN  /\ Cardinality(al) <= 1
                  /\ IF n = 1 THEN {w} = avs
                     ELSE IF al = {} THEN w = 0
                     ELSE {w} = al
                  /\ w # 0 => avatars'[w].score = avatars[w].score + avatars[w].round_score
                                  + KillCredit(g, w) + Max(n - 1, 1)
                  /\ \A p \in avs \ {w} :
                         avatars'[p].score <= avatars[p].score + avatars[p].round_score
                                                + KillCredit(g, p)]_vars

\* a solo game's avatar died and is the winner of its round
C4_Witness ==
    \E g \in Gids :
        /\ Cardinality(games[g].avatars) = 1
        /\ games[g].rounds_end = 1 /\ games[g].alive_at_end = {}
        /\ games[g].round_winner \in games[g].avatars

\* ---- C5 ----
C5_Won(g) ==
    LET avs  == games[g].avatars
        pres == {p \in avs : avatars[p].present}
        top  == {p \in pres : avatars[p].score >= games[g].max_score}
    IN  \/ pres = {}
        \/ Cardinality(avs) > 1 /\ Cardinality(pres) <= 1
        \/ \E p \in top : \A q \in top \ {p} : avatars[q].score < avatars[p].score

\* C5: when the loop stops, the game ends iff the win test holds; otherwise a
\* new round begins and the game does not end.
C5_WinTest ==
    [][\A g \in Gids :
          Stopped(g) =>
              IF C5_Won(g)
              THEN /\ games'[g].ended /\ ~games'[g].in_round
                   /\ games'[g].rounds_new = games[g].rounds_new
              ELSE /\ ~games'[g].ended /\ games'[g].in_round
                   /\ games'[g].rounds_new = games[g].rounds_new + 1]_vars

\* a second round was begun because the two best scores reaching maxScore tie
C5_Witness ==
    \E g \in Gids :
        /\ Cardinality(games[g].avatars) = 2
        /\ games[g].rounds_new = 2 /\ ~games[g].ended
        /\ \A p \in games[g].avatars :
               avatars[p].present /\ avatars[p].score >= games[g].max_score

\* ---- C6 ----
\* g is a game of a single avatar created while no maxScore was configured
Solo(g) ==
    /\ games[g].created /\ ~games[g].ended /\ ~games[g].configured
    /\ Cardinality(games[g].avatars) = 1

\* a single-player game created with no configured maxScore gets maxScore 1
C6_MaxScore ==
    \A g \in Gids :
        (~games[g].created /\ games'[g].created
             /\ Cardinality(games'[g].avatars) = 1 /\ room.max_score = 0)
            => games'[g].max_score = 1

\* its first round ends in the step in which the avatar dies, with the avatar
\* as round winner and a score of 1
C6_FirstRound ==
    \A g \in Gids, p \in Pids :
        (Solo(g) /\ games[g].in_round /\ p \in games[g].avatars
             /\ avatars[p].alive /\ ~avatars'[p].alive)
            => /\ RoundEnded(g)
               /\ games'[g].rounds_end = 1
               /\ games'[g].round_winner = p
               /\ avatars'[p].score = 1

\* the stop after warmdown ends the game, no second round having begun
C6_Ends ==
    \A g \in Gids :
        (Solo(g) /\ Stopped(g)) => games'[g].ended /\ games'[g].rounds_new = 1

C7_Score ==
    /\ [](\A p \in Pids : avatars[p].round_score >= 0)
    /\ [][\A p \in Pids :
             (avatars[p].exists /\ avatars'[p].exists) =>
                 /\ avatars'[p].score >= avatars[p].score
                 /\ avatars'[p].score # avatars[p].score =>
                        \E g \in Gids :
                            /\ p \in games[g].avatars /\ RoundEnded(g)
                            /\ avatars'[p].score = avatars[p].score + avatars[p].round_score
                                  + KillCredit(g, p) + Award(g, p)]_vars

\* an avatar has scored in two rounds
C7_Witness ==
    \E g \in Gids, p \in Pids :
        p \in games[g].avatars /\ games[g].rounds_end = 2 /\ avatars[p].score = 2

\* ---- C8 ----
\* C8: a game that has emitted end is not started, is in no round, has no
\* warmup timer armed, runs no tick loop and has no bonus timer armed.
C8_EndTerminal ==
    \A g \in Gids :
        games[g].ended =>
            /\ ~games[g].started /\ ~games[g].in_round /\ ~games[g].start_timer
            /\ ~games[g].frame_task /\ ~games[g].poping_timeout
            /\ games[g].bonuses = 0

\* ---- C9 ----
\* C9: once the waiting timer of a game has fired, its first round has begun.
C9_FirstRound ==
    \A g \in Gids : games[g].timed_out => games[g].rounds_new >= 1

\* ---- C10 ----
Active(g) == games[g].created /\ ~games[g].ended

C10_Inv ==
    /\ Cardinality({g \in Gids : Active(g)}) <= 1
    /\ \A g \in Gids : Active(g) <=> room.game = g

C10_Step ==
    room.game # 0 =>
        /\ room'.game_count = room.game_count
        /\ \/ room'.game = room.game
           \/ /\ room'.game = 0
              /\ ~games[room.game].ended /\ games'[room.game].ended

\* C10: the room has at most one game that was created and has not ended, and
\* it is room.game; while room.game is set no game is created; room.game is
\* cleared only in the step in which that game emits end.
C10_OneGame == []C10_Inv /\ [][C10_Step]_vars

\* a second game is the room's game after the first one ended
C10_Witness == room.game = 2 /\ games[1].ended /\ Active(2)

\* ---- C11 ----
\* C11: every game was created while the room was ready: at least one player
\* in the roster and every player ready, whichever path called new_game.
C11_ReadyGated ==
    \A g \in Gids : games[g].created => games[g].room_ready

\* ---- C12 ----
\* the handlers left the room, the controller, the sessions and the games as
\* they are, and every reply they gave reports success = false
Refused(S) ==
    /\ S.clients = clients /\ S.room = room /\ S.ctl = ctl
    /\ S.games = games /\ S.avatars = avatars
    /\ \A i \in 1..Len(S.replies) : ~S.replies[i]

\* C12: in every reachable state, a room:launch, room:config:open or
\* room:config:max-score request of a session that is not the room master
\* changes nothing (no countdown started or cancelled, open, password and
\* maxScore kept) and is answered, if at all, with success = false.
C12_MasterOnly ==
    \A c \in Clients :
        (Connected(c) /\ ctl.room_master # c) =>
            LET n == clients[c].master_listeners
            IN  /\ Refused(emit_launch(Cur, c, n))
                /\ \A v \in ScoreInputs : Refused(emit_config_max_score(Cur, c, v, n))
                /\ \A o \in BOOLEAN : Refused(emit_config_open(Cur, c, o, n))

\* a former room master still holds the master listeners while another session
\* is the room master, a countdown runs and maxScore is configured
C12_Witness ==
    \E c \in Clients :
        /\ Connected(c) /\ clients[c].master_listeners > 0
        /\ ctl.room_master \notin {0, c}
        /\ ctl.launching /\ room.max_score # 0

\* ---- C13 ----
C13_Inv ==
    ctl.room_master # 0 =>
        /\ ctl.room_master \in Range(ctl.clients)
        /\ clients[ctl.room_master].players # {}

C13_Step ==
    LET m == ctl.room_master
    IN  (/\ m # 0
         /\ m \notin Range(ctl'.clients) \/ clients'[m].players = {}
         /\ \E c \in Range(ctl'.clients) : clients'[c].active /\ clients'[c].players # {})
            => /\ ctl'.room_master \in Range(ctl'.clients)
               /\ clients'[ctl'.room_master].active
               /\ clients'[ctl'.room_master].players # {}

C16_OneReply ==
    \A c \in Clients :
        Connected(c) =>
            LET n == clients[c].room_listeners
                m == clients[c].master_listeners
            IN  /\ \A pw \in BOOLEAN : Len(on_join_room(Cur, c, pw).replies) <= 1
                /\ Len(emit_player_add(Cur, c, n).replies) <= 1
                /\ \A p \in clients[c].players :
                       /\ Len(emit_player_remove(Cur, c, p, n).replies) <= 1
                       /\ Len(emit_room_ready(Cur, c, p, n).replies) <= 1
                /\ \A v \in ScoreInputs : Len(emit_config_max_score(Cur, c, v, m).replies) <= 1
                /\ \A o \in BOOLEAN : Len(emit_config_open(Cur, c, o, m).replies) <= 1

\* C14: a room is closed, or removed from the repository, only after it has
\* had no attached session for time_to_close without interruption.
C14_EmptyLongEnough ==
    \A r \in Rooms :
        repository.waited[r] = -1 \/ repository.waited[r] >= time_to_close

\* C15: the names registered in the repository are pairwise distinct, and a
\* room:create that is answered success=false has registered no room and
\* emitted no room:open, while one answered success=true has registered one.
C15_Inv ==
    \A i, j \in 1..Len(repository.rooms) :
        repository.name[repository.rooms[i]] = repository.name[repository.rooms[j]]
            => i = j

C15_Step ==
    \A raw \in RawNames, g \in GenNames :
        CreateRoom(raw, g) =>
            LET name == IF raw # <<>> THEN strip(Truncate(raw, max_length)) ELSE <<>>
                taken == name # <<>> /\ name \in ids(repository)
            IN /\ repository'.last = <<"create", ~taken>>
               /\ taken => /\ repository'.rooms = repository.rooms
                           /\ repository'.name = repository.name
                           /\ repository'.opens = repository.opens
                           /\ repository'.checks = repository.checks
               /\ ~taken => /\ Len(repository'.rooms) = Len(repository.rooms) + 1
                            /\ repository'.opens = repository.opens + 1

C15_UniqueNames == []C15_Inv /\ [][C15_Step]_vars

\* a create request whose name, cut at max_length and stripped, is the name
\* of a registered room has just been refused
C15_Witness ==
    /\ repository.last = <<"create", FALSE>>
    /\ Len(repository.rooms) = 1
    /\ repository.name[repository.rooms[1]] = Fill
    /\ repository.made = 1

\* the events of a sequence of frames, in the order they were handed over
RECURSIVE Flat(_)
Flat(frames) == IF frames = <<>> THEN <<>> ELSE Head(frames).evs \o Flat(Tail(frames))

IsFlush(f) == f.flush

\* C17: the events of one session are handed to the transport in the order
\* they were issued: no queued event is sent after an event issued later.
C17_IssueOrder ==
    LET all == Flat(wire.sent)
    IN \A i, j \in 1..Len(all) :
          (i < j /\ all[j].how = "queued") => all[i].id < all[j].id

\* C18: the events put in the outbox are, in this order and each once, the
\* events of the flush frames, then those a flush discarded, then the outbox;
\* a flush discards events only when the session is not connected; queued
\* events are sent in flush frames only; the ticks of the flushed events never
\* decrease; and the flush task lives as long as the session is connected.
C18_FlushedOnce ==
    LET F == Flat(SelectSeq(wire.sent, IsFlush))
    IN /\ F \o wire.dropped \o wire.events = wire.log
       /\ \A i, j \in 1..Len(wire.log) : i < j => wire.log[i].id < wire.log[j].id
       /\ wire.dropped # <<>> => ~wire.connected
       /\ \A i \in 1..Len(wire.sent) : \A k \in 1..Len(wire.sent[i].evs) :
             wire.sent[i].flush <=> wire.sent[i].evs[k].how = "queued"
       /\ \A i, j \in 1..Len(F) : i < j => F[i].tick <= F[j].tick
       /\ wire.connected => ~LoopDone(wire)

\* two flush frames with events of two ticks have been handed over, and events
\* were enqueued while a flush and a forced send are in flight
C18_Witness ==
    LET F == Flat(SelectSeq(wire.sent, IsFlush))
    IN /\ wire.connected /\ wire.loop = "send" /\ wire.inflight > 0
       /\ Len(SelectSeq(wire.sent, IsFlush)) >= 2
       /\ \E i, j \in 1..Len(F) : F[i].tick < F[j].tick
       /\ wire.events # <<>>

\* C19: once the session is closed no frame is handed to the transport any
\* more, and when the close has been handled the flush task and the ping task
\* are stopped.
C19_Stopped ==
    /\ wire.closed_at # -1 => Len(wire.sent) = wire.closed_at
    /\ wire.handler = "closed" => LoopDone(wire) /\ PingDone(wire)

\* no callback is waiting, no send is under way and the handler waits for a frame
Quiescent ==
    /\ wire.ready = <<>> /\ wire.inflight = 0 /\ wire.loop # "send"
    /\ wire.handler = "recv"

\* C20: a session that a failed send marked disconnected is detached from its
\* room and its game and has no avatar, once the loop has nothing left to run.
C20_FailureCascades ==
    (Quiescent /\ ~wire.connected) => ~wire.in_room /\ ~wire.in_game /\ ~wire.avatar

\* what on_message makes of the messages of a frame that holds messages
Outcome(source) ==
    IF source.k \in {"atom", "obj"} \/ source.len = 0 THEN "raised"
    ELSE IF source.k = "arr" /\ source.name = "whoami"
         THEN (IF source.len = 3 THEN "replied" ELSE "raised")
    ELSE IF source.k = "arr" /\ source.name = "activity" THEN "handled"
    ELSE "ignored"

\* C21: no inbound frame closes the connection, and a frame answers nothing
\* but its well-formed requests; every message of the frame is gone through.
C21_Step ==
    \A text \in FrameTexts :
        ReceiveText(text) =>
            /\ inbox'.open
            /\ text[1] \in {"str", "obj", "arr"} =>
                  inbox'.log = inbox.log \o [i \in 1..Len(text[2]) |-> Outcome(text[2][i])]
            /\ text[1] \in {"invalid", "atom", "str", "obj"} =>
                  inbox'.replies = inbox.replies

C21_StaysOpen == [][C21_Step]_vars

\* two bodies whose circles overlap
Overlap(body_a, body_b) ==
    Sq(body_a.x - body_b.x) + Sq(body_a.y - body_b.y) < Sq(body_a.radius + body_b.radius)

\* the bodies of the world avatar a's head overlapped when Game.update last
\* tested it for a collision
Overlapped(a) ==
    {i \in 1..field.av[a].seen : Overlap(field.bodies[i], head(field, a))}

\* C22: an avatar's head numbered n is never killed by one of its own trail
\* bodies numbered n - L .. n, L the trail latency of 3; a head that the frame
\* tested for a collision and that overlapped an own body numbered n - L - 1 or
\* lower, or any body of another avatar, was killed by a body in that frame
C22_TrailLatency ==
    \A a \in Avs :
        /\ (field.av[a].ev = "body" /\ field.av[a].killer[1] = a)
              => field.av[a].num - field.av[a].killer[2] > DEFAULT_TRAIL_LATENCY
        /\ (field.av[a].ev = "moved" /\ ~field.av[a].shield)
              => \A i \in Overlapped(a) :
                    /\ field.bodies[i].data = a
                    /\ field.bodies[i].num >= field.av[a].num - DEFAULT_TRAIL_LATENCY

\* a head killed by its own body numbered n - L - 1 while it also overlapped its
\* own body numbered n - L
C22_Witness ==
    \E a \in Avs :
        /\ field.av[a].ev = "body"
        /\ field.av[a].killer = <<a, field.av[a].num - DEFAULT_TRAIL_LATENCY - 1>>
        /\ \E i \in Overlapped(a) :
              /\ field.bodies[i].data = a
              /\ field.bodies[i].num = field.av[a].num - DEFAULT_TRAIL_LATENCY

\* the point of the opposite wall that corresponds to a point p outside the map
Across(p) ==
    IF p[1] < 0 THEN <<field.size, p[2]>>
    ELSE IF p[1] > field.size THEN <<0, p[2]>>
    ELSE IF p[2] < 0 THEN <<p[1], field.size>>
    ELSE IF p[2] > field.size THEN <<p[1], 0>>
    ELSE p

\* what the frame did to avatar a, alive before it: p is where Avatar.update
\* took its centre
C23_Step(a) ==
    LET p == field'.av[a].pre
        r == field.av[a].radius
    IN /\ field.borderless =>
            /\ field'.av[a].ev # "wall"
            /\ Across(p) # p =>
                  /\ field'.av[a].alive
                  /\ <<field'.av[a].x, field'.av[a].y>> = Across(p)
       /\ (~field.borderless
             /\ (p[1] < r \/ p[1] > field.size - r \/ p[2] < r \/ p[2] > field.size - r)) =>
            /\ ~field'.av[a].alive
            /\ field'.av[a].ev = "wall"
            /\ field'.av[a].killer = <<>>

\* C23: in a frame of a borderless game no avatar is killed by a wall, and an
\* avatar whose centre crossed a wall is alive after the frame at the
\* corresponding point of the opposite wall; in a frame of a game that is not
\* borderless an avatar whose centre came within its radius of a wall is dead
\* after the frame, killed by the wall with no killer
C23_Walls ==
    [][field'.ticks = field.ticks + 1 =>
         \A a \in Avs : field.av[a].alive => C23_Step(a)]_vars

\* the stack a bonus goes to holds it: the game's stack for a game bonus, else
\* the stack of avatar a
Holds(P, a, b) ==
    LET stack == IF affect(b.kind) = "game" THEN P.gstack ELSE P.av[a].stack
    IN \E j \in 1..Len(stack) : stack[j].uid = b.uid

\* the timers of P that are not in Q
Fresh(P, Q) ==
    {t \in {P.timers[i] : i \in 1..Len(P.timers)} :
        \A j \in 1..Len(Q.timers) : Q.timers[j].bonus.uid # t.bonus.uid}

C24_Step ==
    /\ \A t \in Fresh(bonusplay', bonusplay) : \A a \in t.target :
           [avatar |-> a, method |-> "add", bonus |-> t.bonus.uid] \in bonusplay'.events
    /\ \A i \in 1..Len(bonusplay'.timers) :
           LET t == bonusplay'.timers[i]
           IN t.clears = bonusplay'.clears =>
                 /\ \A a \in t.target : bonusplay'.av[a].alive => Holds(bonusplay', a, t.bonus)
                 /\ (t.bonus.kind = "BonusSelfFast" /\ t.target # {})
                       => \A a \in t.target :
                             (bonusplay'.av[a].alive /\ Len(bonusplay'.av[a].stack) = 1)
                                => bonusplay'.av[a].velocity = DEFAULT_VELOCITY + DEFAULT_VELOCITY \div 2
    /\ \A t \in Fresh(bonusplay, bonusplay') :
           \A a \in t.target :
              /\ ~Holds(bonusplay', a, t.bonus)
              /\ [avatar |-> a, method |-> "remove", bonus |-> t.bonus.uid] \in bonusplay'.events
              /\ (t.clears = bonusplay.clears /\ bonusplay'.av[a].alive
                    /\ bonusplay'.av[a].stack = <<>>)
                    => bonusplay'.av[a].velocity = DEFAULT_VELOCITY

\* C24: a bonus with a duration that was picked up stays in the stack of each
\* of its targets until its timer runs, unless the target died or the round was
\* reset; when the timer runs the bonus leaves the stack and the properties are
\* recomputed (a lone BonusSelfFast: velocity 24 while it is held, 16 once it has
\* gone); a 'change' event with method add is emitted at the pick-up and one
\* with method remove at the expiry
C24_HeldUntilExpiry == [][C24_Step]_vars

\* C25: once the bonus manager has been cleared or stopped (a round starts, the
\* game loop stops, the game ends), no off() callback of a bonus applied before
\* that runs any more: every off() that runs belongs to a bonus applied since
\* the manager's last clear()
C25_NoOffAfterClear == \A o \in bonusplay.offs : o.applied = o.run

\* the properties of avatar a that bonuses act on are at their defaults
Defaults(A, a) ==
    /\ A.velocity = DEFAULT_VELOCITY /\ A.radius_log2 = 0
    /\ ~A.inverse /\ ~A.invincible /\ A.color = PlayerColor(a)
    /\ A.direction_in_loop /\ A.angular_velocity_base = DEFAULT_VELOCITY

C26_Step ==
    /\ \A a \in Avs :
          (Len(bonusplay.av[a].stack) = 1 /\ bonusplay'.av[a].stack = <<>>)
             => Defaults(bonusplay'.av[a], a)
    /\ (Len(bonusplay.gstack) = 1 /\ bonusplay'.gstack = <<>>) => ~bonusplay'.borderless

\* C26: for a bonus of any type, add(B) and then remove(B) on a stack that holds
\* nothing else leaves the target's properties at their defaults: velocity 16,
\* radius 0.6, not inverse, not invincible, the player's color, direction in
\* loop, the default base angular velocity, and the game not borderless
C26_AddRemoveRestores == [][C26_Step]_vars

\* every type of bonus can be the one that was added alone and removed again; here
\* a BonusEnemyStraightAngle has been added to and removed from avatar 1's stack
C26_Witness ==
    /\ bonusplay.av[1].stack = <<>>
    /\ bonusplay.av[1].directionInLoop = "0"
    /\ \E b \in Bonuses : bonusplay.events = {[avatar |-> 1, method |-> "remove", bonus |-> b.uid]}
                           /\ b.kind = "BonusEnemyStraightAngle"

\* the active bonuses of a stack that have an effect on prop
WithEffect(stack, prop) == {j \in 1..Len(stack) : prop \in effect_names(get_effects(stack[j]))}

\* the properties of avatar a are the fold of its active bonuses from the defaults
Folded(A, a) ==
    /\ A.velocity = Max(DEFAULT_VELOCITY \div 2, DEFAULT_VELOCITY + stack_sum(A.stack, "velocity"))
    /\ A.radius_log2 = Max(-3, stack_sum(A.stack, "radius"))
    /\ A.inverse = (Cardinality(WithEffect(A.stack, "inverse")) % 2 = 1)
    /\ A.invincible = (WithEffect(A.stack, "invincible") # {})
    /\ A.color = IF WithEffect(A.stack, "color") = {} THEN PlayerColor(a)
                 ELSE A.stack[CHOOSE j \in WithEffect(A.stack, "color") :
                                 \A k \in WithEffect(A.stack, "color") : k <= j].color

\* C30: whatever was added to and removed from the bonus stack of an alive
\* avatar, its velocity, radius, inverse, invincible and color are the fold of
\* the bonuses now in the stack, starting from the defaults
C30_PropertiesAreFold == \A a \in 1..NumAvatars : bonusplay.av[a].alive => Folded(bonusplay.av[a], a)

\* the events the claim lists for a session attaching to game g in a round
Listed(g) ==
    LET ps == Sorted(games[g].avatars)
        of(p) == << <<"position", p>>, <<"property", p, "angle">>, <<"property", p, "radius">>,
                    <<"property", p, "color">>, <<"property", p, "printing">>,
                    <<"property", p, "score">> >>
                 \o (IF avatars[p].alive THEN <<>> ELSE << <<"die", p>> >>)
        all[n \in 0..Len(ps)] == IF n = 0 THEN <<>> ELSE all[n - 1] \o of(ps[n])
    IN  << <<"spectate">> >> \o all[Len(ps)]
        \o [i \in 1..games[g].bonuses |-> <<"bonus:pop", i>>]
        \o << <<"game:spectators">> >>

\* a session attached to game g, which has started and is in a round
Watching(c, g) ==
    /\ Connected(c) /\ c \in games[g].clients /\ clients[c].ready_listeners[g] > 0
    /\ games[g].started /\ games[g].in_round

\* C27: when a session sends ready to a game that has started and is in a round,
\* the request puts into the session's queue exactly one spectate, then for each
\* avatar a position, the five properties angle, radius, color, printing, score
\* and a die if it is dead, then a bonus:pop for each bonus on the map, then one
\* game:spectators, in this order
C27_SpectatorSnapshot ==
    \A c \in Clients, g \in Gids :
        Watching(c, g) => emit_ready(Cur, c, Sorted(Gids)).events = Listed(g)

\* C28: the counter the room takes its player ids from never decreases, so that
\* an id is never handed out a second time, also after its holder was removed
\* and after a game of the room has ended
C28_IdsNeverReused == [][room'.id_counter >= room.id_counter]_vars

\* a step in which session c sent room:join with password
Joined(c, password) ==
    /\ config'.last # config.last \/ config'.clients # config.clients
    /\ Len(config'.last) = 3 /\ config'.last[1] = c /\ config'.last[2] = password

C29_Step ==
    /\ config'.open <=> config'.password = <<>>
    /\ ~config'.open => config'.password \in [1..4 -> 1..9]
    /\ (config.open /\ ~config'.open) => config'.generated = config.generated + 1
    /\ \A c \in Clients :
          (~config.open /\ c \notin config.clients /\ c \in config'.clients)
             => \E password \in Supplied : Joined(c, password) /\ password = config.password
    /\ \A c \in Clients, password \in Supplied :
          (~config.open /\ password # config.password
             /\ config' = RoomsController_on_join_room(config, c, password))
             => /\ config'.last = <<c, password, FALSE>>
                /\ [config' EXCEPT !.last = config.last] = config

\* C29: the room's config holds a password exactly when the room is closed, of
\* four digits and generated anew each time the room is closed, and none when
\* it is open; a session is attached to a closed room only if its room:join
\* supplied the current password; a join with a wrong or missing password gets
\* an error reply and changes nothing
C29_Password == [][C29_Step]_vars

\* a session has joined a closed room with its password after another join was
\* refused, and the room has been closed twice
C29_Witness ==
    /\ ~config.open /\ config.generated = 2
    /\ config.last = <<2, config.password, TRUE>> /\ 2 \in config.clients

\* C31: an avatar steers by right angles exactly while a BonusEnemyStraightAngle
\* is in its stack: direction_in_loop, which BaseAvatar.update_angle reads, is
\* false while such a bonus is active and true (the default) when none is
C31_StraightAngle ==
    \A a \in 1..NumAvatars :
        bonusplay.av[a].direction_in_loop
            = (WithEffect(bonusplay.av[a].stack, "directionInLoop") = {})

\* C32: an avatar that is dead has a stopped print manager and does not print; a
\* step in which it stays dead adds no point of its own to the world
C32_Step ==
    \A a \in Avs :
        (~field.av[a].alive /\ ~field'.av[a].alive)
            => field'.av[a].body_count = field.av[a].body_count

C32_DeadStaysStopped ==
    /\ [](\A a \in Avs : ~field.av[a].alive => ~field.av[a].pm_active /\ ~field.av[a].printing)
    /\ [][C32_Step]_vars

\* the islands whose Island.bodies list body u, and the islands whose square
\* holds one of the four corner points of body u
Listing(u) == {isl \in DOMAIN world.isl : u \in Range(world.isl[isl])}

Holding(u) ==
    LET n == round_div(world.size, island_grid_size)
        b == world.body[u]
    IN {isl \in DOMAIN world.isl :
          \E px \in {b.x - b.radius, b.x + b.radius}, py \in {b.y - b.radius, b.y + b.radius} :
             /\ isl[1] * world.size <= px * n /\ px * n < (isl[1] + 1) * world.size
             /\ isl[2] * world.size <= py * n /\ py * n < (isl[2] + 1) * world.size}

\* World.add_body on the inactive world in this step
AddedInactive ==
    /\ ~world.active /\ Len(world'.body) = Len(world.body) + 1

\* C33: on the active world every body an island lists is listed by exactly the
\* islands that hold one of its four corner points, once by each, and its
\* Body.islands are exactly those islands; a body World.remove_body was called
\* for is listed by no island and lists none; the inactive world lists no body,
\* and World.add_body on it changes neither the islands nor the body count
C33_Inv ==
    /\ \A u \in 1..Len(world.body) :
          Listing(u) # {} =>
             /\ world.active
             /\ Listing(u) = Holding(u)
             /\ Range(world.body[u].islands) = Listing(u)
             /\ Len(world.body[u].islands) = Cardinality(Listing(u))
             /\ \A isl \in Listing(u) :
                   Cardinality({k \in 1..Len(world.isl[isl]) : world.isl[isl][k] = u}) = 1
    /\ \A u \in world.removed : Listing(u) = {} /\ world.body[u].islands = <<>>
    /\ ~world.active => \A isl \in DOMAIN world.isl : world.isl[isl] = <<>>

C33_Step ==
    AddedInactive =>
        /\ world'.isl = world.isl /\ world'.body_count = world.body_count
        /\ world'.body[Len(world'.body)] = Body(world'.body[Len(world'.body)].x,
                                               world'.body[Len(world'.body)].y, Radius)

C35_ReadyOnce ==
    \A c \in Clients : \A p \in clients[c].players :
        (Connected(c) /\ InRoom(c)) =>
            LET S == emit_room_ready(Cur, c, p, clients[c].room_listeners)
            IN  /\ S.room.ready[p] = ~room.ready[p]
                /\ S.replies = <<TRUE>>

\* the rooms whose controller session c is attached to
AttachedTo(c) == {r \in Rooms : c \in repository.attached[r]}

\* C36: a session is attached to the controller of at most one room
C36_OneRoom == \A c \in Clients : Cardinality(AttachedTo(c)) <= 1

\* C37: a room that is registered in the repository and has a session attached
\* stays registered
C37_Step ==
    \A r \in Rooms :
        (r \in Range(repository.rooms) /\ repository.attached[r] # {})
            => r \in Range(repository'.rooms)

C37_AttachedStays == [][C37_Step]_vars

\* C34: a player:remove, room:ready, players:clear or room:join request of a
\* session leaves every player of another session in each roster it was in and
\* leaves its ready flag as it was
C34_Step ==
    (lobby' # lobby /\ lobby'.last # <<>>
        /\ lobby'.last[1] \in {"player:remove", "room:ready", "players:clear", "room:join"})
    => \A u \in 1..Len(lobby.player) :
           lobby.player[u].client # lobby'.last[2]
           => /\ lobby'.player[u].ready = lobby.player[u].ready
              /\ \A r \in 1..MaxRooms :
                     u \in Range(lobby.roster[r]) => u \in Range(lobby'.roster[r])
C34_OwnPlayersOnly == [][C34_Step]_vars

\* the bonuses the manager numbered that are on the map or have a pending timer
Numbered(P) ==
    {P.map[i] : i \in 1..Len(P.map)} \cup {P.timers[i].bonus : i \in 1..Len(P.timers)}

\* no two bonuses on the map or with a pending timer have the same id
C38_Inv ==
    \A b1, b2 \in Numbered(bonusplay) : b1.id = b2.id => b1.uid = b2.uid

\* the expiry timer of a bonus takes no other bonus out of a stack
C38_Step ==
    \A o \in bonusplay'.offs :
        /\ \A a \in 1..NumAvatars : \A j \in 1..Len(bonusplay.av[a].stack) :
               bonusplay.av[a].stack[j].uid # o.bonus
               => \E k \in 1..Len(bonusplay'.av[a].stack) :
                      bonusplay'.av[a].stack[k].uid = bonusplay.av[a].stack[j].uid
        /\ \A j \in 1..Len(bonusplay.gstack) :
               bonusplay.gstack[j].uid # o.bonus
               => \E k \in 1..Len(bonusplay'.gstack) :
                      bonusplay'.gstack[k].uid = bonusplay.gstack[j].uid

\* C38: the expiry timer of a bonus removes no other bonus from the stack of an
\* avatar or of the game, and the manager does not hand out an id again while a
\* bonus with that id is on the map or has a pending expiry timer
C38_OwnExpiryOnly == [](C38_Inv) /\ [][C38_Step]_vars

\* the loop of game g is started by this step
LoopStarted(g) == ~games[g].frame_task /\ games'[g].frame_task

\* C39: the loop of a game is started only while its round is in progress: a
\* warm-up timer that fires after the round has ended starts no loop, so that no
\* frame updates or kills an avatar between that round end and the next round
C39_StartInRound == [][\A g \in Gids : LoopStarted(g) => games'[g].in_round]_vars

\* C40: the ready request of a session for a game that has started puts events
\* in that session's queue only: no other session attached to the game gets an
\* event from it, in a round or between rounds
C40_SnapshotIsPrivate ==
    \A g \in Gids : \A c \in Clients : \A d \in Clients \ {c} :
        (Connected(c) /\ clients[c].ready_listeners[g] > 0 /\ games[g].started)
        => spectator_group_events(Cur, g, d) = <<>>

====
